---- MODULE Spec2Model ----
(***************************************************************************)
(* terrarium-irc: the conversational agent orchestrator.                   *)
(*                                                                         *)
(* The model follows src/bot/commands.py (cmd_terrarium, cmd_compact,      *)
(* cmd_clear), src/llm/context_manager.py (ChannelContext, ContextManager),*)
(* src/llm/tool_executor.py (ToolExecutor) and src/storage/database.py     *)
(* (the conversation_history table).                                       *)
(*                                                                         *)
(* Python strings are modelled as Text records: the stripped core `s`, a   *)
(* flag `pad` for surrounding whitespace, and a `kind`:                    *)
(*   "plain"   text that does not have the form {...}                      *)
(*   "braced"  text of the form {...} that json.loads rejects              *)
(*   "json"    the JSON serialisation of the dict `obj`                    *)
(* and `wrap`, the XML-like block the text is wrapped in, if any,          *)
(* so that json.dumps / json.loads / str.strip are conversions and not the *)
(* identity.                                                               *)
(***************************************************************************)
EXTENDS Integers, Sequences, FiniteSets, TLC

VARIABLES
    contexts,   \* ContextManager.contexts: per channel, the cached ChannelContext
    dbHistory,  \* table conversation_history: per channel, the rows in insertion order
    dbSummary,  \* the persisted summary per channel
    ircLog,     \* table messages: per channel, whether PRIVMSG events are logged
    req,        \* the locals of the cmd_terrarium call in progress
    obs,        \* what the last request did (model calls, final texts, errors)
    outbox,     \* bot.send_message calls of the last command, in order
    used,       \* how much of the exploration bounds the run has used
    budget,     \* _determine_max_tokens: the message lists given and what it returned
    notes,      \* data/enhancements: the files, and the tool calls working on them
    finisher,   \* the end of cmd_terrarium: the final text, what is recorded and sent
    split,      \* split_long_response: the text and limit given and what it returned
    retry,      \* _request_with_retry: the attempts of one call and how it ended
    tasks,      \* the command coroutines of the event loop and where each stands
    fallback,   \* one model response of the loop: its text, its tool calls, where it led
    search      \* a search query, and how the command and the tool each classified it

vars == <<contexts, dbHistory, dbSummary, ircLog, req, obs, outbox, used, budget, notes,
          finisher, split, retry, tasks, fallback, search>>

\* the variables of the conversation, and the others
conversation == <<contexts, dbHistory, dbSummary, ircLog, req, obs, outbox, used>>
aside == <<budget, notes, finisher, split, retry, tasks, fallback, search>>
beside_budget == <<notes, finisher, split, retry, tasks, fallback, search>>
beside_notes == <<budget, finisher, split, retry, tasks, fallback, search>>
beside_finisher == <<budget, notes, split, retry, tasks, fallback, search>>
beside_split == <<budget, notes, finisher, retry, tasks, fallback, search>>
beside_retry == <<budget, notes, finisher, split, tasks, fallback, search>>
beside_tasks == <<budget, notes, finisher, split, retry, fallback, search>>
beside_fallback == <<budget, notes, finisher, split, retry, tasks, search>>
beside_search == <<budget, notes, finisher, split, retry, tasks, fallback>>

-----------------------------------------------------------------------------
(* Program constants *)

SUMMARY_TRIGGER_TURNS == 40
SUMMARY_RETAIN_TURNS == 12
MAX_TOOL_ITERATIONS == 8
TOOL_WARNING_ITERATION == 5
MODEL_CONTEXT_LIMIT == 8192
MIN_COMPLETION_TOKENS == 128
MAX_COMPLETION_TOKENS == 512
COMPLETION_BUFFER == 256
\* the literal of _determine_max_tokens for a prompt that leaves no room
FLOOR_COMPLETION_TOKENS == 32
\* _estimate_prompt_tokens: characters added per message, and characters per token
ROLE_METADATA_CHARS == 8
CHARS_PER_TOKEN == 4
MAX_ENHANCEMENTS == 10

(* Bounds of the exploration *)

MaxCommands == 2    \* commands (!terrarium, !compact, !clear) and restarts per run
MaxRequests == 1    \* !terrarium requests with a question per run
MaxToolRounds == 8  \* model responses that ask for tools, per run
MaxToolCalls == 2   \* tool calls in one model response
MaxRich == 1        \* inputs per run other than the default ones
LongPairs == 20     \* user/assistant pairs of the long initial history
HeadPairs == 14     \* pairs before the tool exchange of the tool-bearing initial history
MaxBudgetMessages == 2  \* messages in a list given to _determine_max_tokens
PromptSlack == 1    \* how far around each threshold the prompt sizes are taken
MaxNoteCalls == 3   \* enhancement tool calls per run
MaxSeconds == 1     \* seconds that pass during a run
MaxTextLen == 5     \* characters of a text given to split_long_response
MaxLimit == 3       \* the max_length given to split_long_response
MaxMarkupLen == 4   \* characters and delimiters a final text begins with
MaxMaxRetries == 3  \* the max_retries an AgentClient is made with
MaxTaskRounds == 1  \* tool rounds of the requests that run beside one another
MaxArgs == 2        \* key=value pairs of a tool call written as text
MaxQueryLen == 3    \* characters of a search query

Channels == {"#a", "#b"}
MainChannels == {"#a"}

-----------------------------------------------------------------------------
(* Python values *)

NoObj == <<>>
NoId == <<>>
NoWrap == <<>>
None == [kind |-> "None", s |-> "", pad |-> FALSE, obj |-> NoObj, wrap |-> NoWrap]

Plain(s) == [kind |-> "plain", s |-> s, pad |-> FALSE, obj |-> NoObj, wrap |-> NoWrap]
Padded(s) == [kind |-> "plain", s |-> s, pad |-> TRUE, obj |-> NoObj, wrap |-> NoWrap]
Braced(s) == [kind |-> "braced", s |-> s, pad |-> FALSE, obj |-> NoObj, wrap |-> NoWrap]
EmptyStr == Plain("")

\* str.strip()
strip(t) == [t EXCEPT !.pad = FALSE]

\* bool(t) for a str or None
Truthy(t) == t.kind # "None" /\ ~(t.kind = "plain" /\ t.s = "" /\ ~t.pad)

\* json.dumps(d) for a message dict d
json_dumps(d) == [kind |-> "json", s |-> "", pad |-> FALSE, obj |-> d, wrap |-> NoWrap]

\* a message dict; an absent key is tool_calls = <<>>, tool_call_id = NoId, name = ""
Turn(role, content, tool_calls, tool_call_id, name) ==
    [role |-> role, content |-> content, tool_calls |-> tool_calls,
     tool_call_id |-> tool_call_id, name |-> name]

PlainTurn(role, content) == Turn(role, content, <<>>, NoId, "")

\* one requested tool invocation; tool_call["function"]["name"/"arguments"] are
\* flattened.  `arguments` names the JSON text the model sent:
\*   "ok"          a JSON object with usable arguments
\*   "blank_query" a JSON object whose query is whitespace only
\*   "malformed"   text json.loads rejects
\*   "not_mapping" JSON that is not an object (a list, a number, null)
ToolCall(id, name, arguments) == [id |-> id, name |-> name, arguments |-> arguments]

-----------------------------------------------------------------------------
(* storage/database.py: table conversation_history *)

save_conversation_turn(rows, role, content) ==
    Append(rows, [role |-> role, content |-> content])

get_conversation_history(rows) == rows

clear_conversation_history(rows) == <<>>

\* the last n elements of a sequence: Python's seq[-n:]
LastN(seq, n) ==
    IF Len(seq) <= n THEN seq ELSE SubSeq(seq, Len(seq) - n + 1, Len(seq))

\* all but the last n elements: Python's seq[:-n]
AllButLastN(seq, n) ==
    IF Len(seq) <= n THEN <<>> ELSE SubSeq(seq, 1, Len(seq) - n)

\* Transcript Store contract: truncate_conversation(channel, keep_last_n)
keep_latest_conversation_turns(rows, n) == LastN(rows, n)

\* Transcript Store contract: save_summary / load_summary
save_conversation_summary(old, text) == text

get_conversation_summary(stored) == stored

-----------------------------------------------------------------------------
(* llm/context_manager.py: ChannelContext *)

\* a channel's state as the operations below transform it:
\* the ChannelContext, its rows of conversation_history and its stored summary
ChannelState(ctx, rows, summ) == [ctx |-> ctx, rows |-> rows, summ |-> summ]

NotCached ==
    [cached |-> FALSE, loaded |-> FALSE, conversation_history |-> <<>>, summary |-> None]

\* ChannelContext.__init__
NewChannelContext ==
    [cached |-> TRUE, loaded |-> FALSE, conversation_history |-> <<>>, summary |-> None]

\* load(), lines 44-66: one persisted row back to a message dict
HydrateTurn(row) ==
    LET stripped == strip(row.content)
    IN  IF stripped.kind = "json" /\ stripped.obj.role = row.role
        THEN stripped.obj
        ELSE PlainTurn(row.role, row.content)

HydrateHistory(rows) == [i \in 1..Len(rows) |-> HydrateTurn(rows[i])]

load(cs) ==
    IF cs.ctx.loaded THEN cs
    ELSE [cs EXCEPT !.ctx.conversation_history =
                        HydrateHistory(get_conversation_history(cs.rows)),
                    !.ctx.summary = get_conversation_summary(cs.summ),
                    !.ctx.loaded = TRUE]

add_user_message(cs, content) ==
    [cs EXCEPT !.ctx.conversation_history = Append(@, PlainTurn("user", content)),
               !.rows = save_conversation_turn(@, "user", content)]

\* add_assistant_message without its save_conversation_turn
add_assistant_message_unsaved(cs, content) ==
    [cs EXCEPT !.ctx.conversation_history = Append(@, PlainTurn("assistant", content))]

add_assistant_message(cs, content) ==
    [cs EXCEPT !.ctx.conversation_history = Append(@, PlainTurn("assistant", content)),
               !.rows = save_conversation_turn(@, "assistant", content)]

add_tool_call_message(cs, message_dict) ==
    [cs EXCEPT !.ctx.conversation_history = Append(@, message_dict),
               !.rows = save_conversation_turn(@, "assistant",
                            IF message_dict.tool_calls # <<>>
                            THEN json_dumps(message_dict)
                            ELSE message_dict.content)]

add_tool_result(cs, tool_result_dict) ==
    [cs EXCEPT !.ctx.conversation_history = Append(@, tool_result_dict),
               !.rows = save_conversation_turn(@, "tool", json_dumps(tool_result_dict))]

clear(cs) ==
    [cs EXCEPT !.ctx.conversation_history = <<>>,
               !.ctx.summary = None,
               !.rows = clear_conversation_history(@),
               !.summ = save_conversation_summary(@, EmptyStr)]

\* str.upper() of a role
str_upper(role) ==
    CASE role = "user" -> "USER"
      [] role = "assistant" -> "ASSISTANT"
      [] role = "tool" -> "TOOL"
      [] role = "system" -> "SYSTEM"
      [] OTHER -> role

\* _format_turns_for_summary, lines 274-285: one line "ROLE: content" per turn;
\* the texts of the model stay below SUMMARY_INPUT_CHAR_LIMIT
_format_turns_for_summary(turns) ==
    [kind |-> "payload", s |-> "", pad |-> FALSE,
     obj |-> [i \in 1..Len(turns) |->
                 [role |-> str_upper(turns[i].role), content |-> turns[i].content]],
     wrap |-> NoWrap]

\* lines 234-252: the messages of the summarization request
SummaryRequest(ctx) ==
    LET turns_to_summarize == AllButLastN(ctx.conversation_history, SUMMARY_RETAIN_TURNS)
    IN  <<PlainTurn("system", Plain("memory_compressor_instruction")),
          PlainTurn("user", _format_turns_for_summary(turns_to_summarize))>>

\* what agent_client.chat did for maybe_summarize: it raised AgentClientError
\* (ok = FALSE) or returned a message whose content is `content`
SummaryFailed == [ok |-> FALSE, content |-> None]
SummaryReply(content) == [ok |-> TRUE, content |-> content]

\* whether maybe_summarize reaches its model call
SummarizeCallsModel(cs) ==
    /\ Len(cs.ctx.conversation_history) > SUMMARY_TRIGGER_TURNS
    /\ AllButLastN(cs.ctx.conversation_history, SUMMARY_RETAIN_TURNS) # <<>>

\* lines 264-271 without the cut of the in-memory history
ApplySummary_keeps_history(cs, summary_text) ==
    [cs EXCEPT !.ctx.summary = summary_text,
               !.summ = save_conversation_summary(@, summary_text),
               !.rows = keep_latest_conversation_turns(@, SUMMARY_RETAIN_TURNS)]

\* lines 264-271, after the model answered
ApplySummary(cs, summary_text) ==
    [cs EXCEPT !.ctx.summary = summary_text,
               !.summ = save_conversation_summary(@, summary_text),
               !.ctx.conversation_history = LastN(@, SUMMARY_RETAIN_TURNS),
               !.rows = keep_latest_conversation_turns(@, SUMMARY_RETAIN_TURNS)]

\* a failed model call taken for an empty summary
SummaryModelFailed_compacts(cs) == ApplySummary(cs, EmptyStr)

\* lines 254-262: the model call raised AgentClientError
SummaryModelFailed(cs) == cs

\* maybe_summarize without the strip() of line 264
maybe_summarize_unstripped(cs, outcome) ==
    IF ~SummarizeCallsModel(cs) THEN cs
    ELSE IF ~outcome.ok THEN SummaryModelFailed(cs)
    ELSE IF ~Truthy(outcome.content) THEN cs
    ELSE ApplySummary(cs, outcome.content)

maybe_summarize(cs, outcome) ==
    IF ~SummarizeCallsModel(cs) THEN cs
    ELSE IF ~outcome.ok THEN SummaryModelFailed(cs)
    ELSE IF ~Truthy(strip(outcome.content)) THEN cs
    ELSE ApplySummary(cs, strip(outcome.content))

-----------------------------------------------------------------------------
(* llm/context_manager.py: ContextManager *)

StateOf(ch) == ChannelState(contexts[ch], dbHistory[ch], dbSummary[ch])

get_context(ch) ==
    IF contexts[ch].cached THEN StateOf(ch)
    ELSE load(ChannelState(NewChannelContext, dbHistory[ch], dbSummary[ch]))

clear_channel(ch) ==
    IF contexts[ch].cached THEN clear(StateOf(ch)) ELSE StateOf(ch)

\* the assignment of a channel's new state to the variables
Store(ch, cs) ==
    /\ contexts' = [contexts EXCEPT ![ch] = cs.ctx]
    /\ dbHistory' = [dbHistory EXCEPT ![ch] = cs.rows]
    /\ dbSummary' = [dbSummary EXCEPT ![ch] = cs.summ]

\* get_messages_for_api, lines 89-139; recent_irc is what get_recent_messages returned
Wrapped(text, wrap) == [text EXCEPT !.wrap = wrap]

\* get_messages_for_api with the recent activity after the history
get_messages_for_api_activity_last(ctx, recent_irc) ==
    <<PlainTurn("system", Plain("system_prompt"))>>
    \o (IF Truthy(ctx.summary)
        THEN <<PlainTurn("system", Wrapped(ctx.summary, <<"conversation_summary">>))>>
        ELSE <<>>)
    \o ctx.conversation_history
    \o (IF recent_irc
        THEN <<PlainTurn("system", Wrapped(Plain("recent_activity"), <<"irc_logs">>))>>
        ELSE <<>>)

get_messages_for_api(ctx, recent_irc) ==
    <<PlainTurn("system", Plain("system_prompt"))>>
    \o (IF Truthy(ctx.summary)
        THEN <<PlainTurn("system", Wrapped(ctx.summary, <<"conversation_summary">>))>>
        ELSE <<>>)
    \o (IF recent_irc
        THEN <<PlainTurn("system", Wrapped(Plain("recent_activity"), <<"irc_logs">>))>>
        ELSE <<>>)
    \o ctx.conversation_history

-----------------------------------------------------------------------------
(* llm/tool_executor.py and storage/database.py: search_messages *)

ToolNames == {"search_chat_logs", "get_current_users", "search_web"}

Returned(payload) == [raised |-> FALSE, payload |-> payload]
Raised == [raised |-> TRUE, payload |-> ""]

\* _search_chat_logs, lines 84-132, with search_messages, lines 226-244:
\* a query of whitespace only passes `if not query`, splits into no words and
\* gives the statement "... WHERE () AND channel = ?", which sqlite rejects
_search_chat_logs(arguments) ==
    CASE arguments = "not_mapping" -> Raised
      [] arguments = "empty" -> Returned("error: query parameter is required")
      [] arguments = "blank_query" -> Raised
      [] OTHER -> Returned("search results")

_get_current_users(arguments) == Returned("users")

\* execute_tool with an else branch that raises instead of lines 63-64
execute_tool_unknown_raises(tool_name, arguments) ==
    LET result ==
            CASE tool_name = "search_chat_logs" -> _search_chat_logs(arguments)
              [] tool_name = "get_current_users" -> _get_current_users(arguments)
              [] OTHER -> Raised
    IN  IF result.raised THEN [raised |-> TRUE, text |-> None]
        ELSE [raised |-> FALSE,
              text |-> Wrapped(Plain(result.payload), <<"tool_result", tool_name>>)]

\* execute_tool, lines 53-67: the result of a tool, wrapped in <tool_result tool=...>
execute_tool(tool_name, arguments) ==
    LET result ==
            CASE tool_name = "search_chat_logs" -> _search_chat_logs(arguments)
              [] tool_name = "get_current_users" -> _get_current_users(arguments)
              [] OTHER -> Returned("error: Unknown tool")
    IN  IF result.raised THEN [raised |-> TRUE, text |-> None]
        ELSE [raised |-> FALSE,
              text |-> Wrapped(Plain(result.payload), <<"tool_result", tool_name>>)]

-----------------------------------------------------------------------------
(* What the environment supplies: user input and the model's replies *)

DefaultUserText == Plain("q")
UserTexts ==
    {DefaultUserText,
     json_dumps(PlainTurn("user", Plain("x"))),
     json_dumps(PlainTurn("assistant", Plain("x")))}

DefaultFinalText == Plain("answer")
FinalTexts == {DefaultFinalText}

\* the summary an earlier compaction left
EarlierSummaryText == Plain("S0")

DefaultSummaryText == Plain("S1")
SummaryTexts == {DefaultSummaryText, Padded("S1"), Padded(""), EmptyStr}
SummaryOutcomes == {SummaryFailed} \cup {SummaryReply(t) : t \in SummaryTexts}
DefaultSummaryOutcomes == {SummaryFailed, SummaryReply(DefaultSummaryText)}

\* the tool calls of one model response: n calls, the first one shaped by `pattern`
CallPatterns == {"ok", "blank_query", "malformed", "not_mapping", "unknown_tool"}

CallName(pattern, k) ==
    IF k = 1 /\ pattern = "unknown_tool" THEN "search_web"
    ELSE IF k % 2 = 1 THEN "search_chat_logs" ELSE "get_current_users"

CallArguments(pattern, k) ==
    IF k = 1 /\ pattern \in {"blank_query", "malformed", "not_mapping"} THEN pattern
    ELSE "ok"

\* ids are unique within a response (and, as the endpoint issues them, within a request)
CallList(n, pattern, iteration) ==
    [k \in 1..n |-> ToolCall(<<iteration, k>>, CallName(pattern, k), CallArguments(pattern, k))]

\* what agent_client.chat did for the loop: it raised AgentClientError (ok = FALSE),
\* or returned {role: assistant, content} with or without tool_calls
ChatFailed == [ok |-> FALSE, message |-> PlainTurn("assistant", None)]
TextReply(text) == [ok |-> TRUE, message |-> PlainTurn("assistant", text)]
ToolReply(calls) == [ok |-> TRUE, message |-> Turn("assistant", EmptyStr, calls, NoId, "")]

-----------------------------------------------------------------------------
(* bot/commands.py *)

Idle ==
    [pc |-> "idle", channel |-> "", user_content |-> None, messages |-> <<>>,
     iteration |-> 0, warning_sent |-> FALSE, final_response |-> None,
     tool_calls |-> <<>>, next_tool |-> 0]

\* the last run of maybe_summarize: its channel, whether it called the model, what
\* the model did, whether it replaced the summary, and the context it left; the
\* summary it found, the turns it chose to summarize and the request it made
Summarized(ch, called, outcome, before, after) ==
    [channel |-> ch, called |-> called, outcome |-> outcome,
     applied |-> (after # before), result |-> after.ctx,
     found |-> before.ctx.summary,
     chosen |-> IF called
                THEN AllButLastN(before.ctx.conversation_history, SUMMARY_RETAIN_TURNS)
                ELSE <<>>,
     messages |-> IF called THEN SummaryRequest(before.ctx) ELSE <<>>]

NoSummarize ==
    [channel |-> "", called |-> FALSE, outcome |-> SummaryFailed,
     applied |-> FALSE, result |-> NotCached, found |-> None, chosen |-> <<>>,
     messages |-> <<>>]

NoRequestYet ==
    [channel |-> "", args |-> None, state |-> "none", model_calls |-> 0, tool_rounds |-> 0,
     final_texts |-> 0, model_failed |-> FALSE, tool_raised |-> FALSE,
     summary_calls |-> 0, summary_failed |-> FALSE, compacted |-> FALSE,
     start_len |-> 0, summarize |-> NoSummarize,
     before |-> ChannelState(NotCached, <<>>, None)]

CanStartCommand == req.pc = "idle" /\ used.commands < MaxCommands

Spend(commands, requests, tool_rounds, rich) ==
    used' = [commands |-> used.commands + commands,
             requests |-> used.requests + requests,
             tool_rounds |-> used.tool_rounds + tool_rounds,
             rich |-> used.rich + rich]

Cost(is_default) == IF is_default THEN 0 ELSE 1

\* a response with several tool calls, or with one that is not the default one,
\* takes the whole allowance of the run
ReplyCost(is_default) == IF is_default THEN 0 ELSE MaxRich

\* lines 181-186: no question given
cmd_terrarium_usage(ch) ==
    /\ CanStartCommand
    /\ outbox' = <<"usage">>
    /\ Spend(1, 0, 0, 0)
    /\ UNCHANGED <<contexts, dbHistory, dbSummary, ircLog, req, obs>>
    /\ UNCHANGED aside

\* lines 189-199: "Thinking...", get_context, add_user_message
cmd_terrarium_begin(ch, args) ==
    /\ CanStartCommand
    /\ used.requests < MaxRequests
    /\ used.rich + Cost(args = DefaultUserText) <= MaxRich
    /\ LET context == get_context(ch)
       IN  /\ Store(ch, add_user_message(context, args))
           /\ obs' = [NoRequestYet EXCEPT
                        !.channel = ch,
                        !.args = args,
                        !.state = "running",
                        !.start_len = Len(context.ctx.conversation_history),
                        !.summarize = obs.summarize,
                        !.before = context]
    /\ req' = [Idle EXCEPT !.pc = "summarize", !.channel = ch, !.user_content = args]
    /\ outbox' = <<"thinking">>
    /\ Spend(1, 1, 0, Cost(args = DefaultUserText))
    /\ UNCHANGED ircLog
    /\ UNCHANGED aside

\* line 200: maybe_summarize
cmd_terrarium_summarize(outcome) ==
    /\ req.pc = "summarize"
    /\ LET cs == StateOf(req.channel)
           calls == SummarizeCallsModel(cs)
           after == maybe_summarize(cs, outcome)
       IN  /\ IF calls
              THEN used.rich + Cost(outcome \in DefaultSummaryOutcomes) <= MaxRich
              ELSE outcome = SummaryFailed
           /\ Store(req.channel, after)
           /\ obs' = [obs EXCEPT
                        !.summary_calls = @ + (IF calls THEN 1 ELSE 0),
                        !.summary_failed = calls /\ ~outcome.ok,
                        !.compacted = (after # cs),
                        !.summarize = Summarized(req.channel, calls, outcome, cs, after)]
           /\ Spend(0, 0, 0, IF calls THEN Cost(outcome \in DefaultSummaryOutcomes) ELSE 0)
    /\ req' = [req EXCEPT !.pc = "assemble"]
    /\ UNCHANGED <<ircLog, outbox>>
    /\ UNCHANGED aside

\* lines 203-244: the working message list and the loop's locals
cmd_terrarium_assemble ==
    /\ req.pc = "assemble"
    /\ req' = [req EXCEPT
                 !.pc = "await_model",
                 !.messages = Append(get_messages_for_api(contexts[req.channel],
                                                          ircLog[req.channel]),
                                     PlainTurn("user", req.user_content)),
                 !.iteration = 0,
                 !.final_response = None,
                 !.warning_sent = FALSE]
    /\ UNCHANGED <<contexts, dbHistory, dbSummary, ircLog, obs, outbox, used>>
    /\ UNCHANGED aside

\* line 387-388: an exception reaches the handler's except clause
RequestFails ==
    /\ req' = Idle
    /\ outbox' = Append(outbox, "error")

WarningTurn == PlainTurn("system", Plain("tool_usage_warning"))

\* lines 249-260 with the test of line 249 reduced to `iteration >= TOOL_WARNING_ITERATION`
WarningDue_from_threshold_on(iteration, warning_sent) ==
    iteration >= TOOL_WARNING_ITERATION

\* lines 249-260
WarningDue(iteration, warning_sent) ==
    ~warning_sent /\ iteration = TOOL_WARNING_ITERATION

\* the loop condition of line 246, once an iteration has ended without a final text
LoopContinues(iteration) == iteration < MAX_TOOL_ITERATIONS

CannedApology ==
    Plain("Sorry, I couldn't complete that request because I hit the maximum number of tool iterations. Try simplifying the request or ask again.")

\* lines 246-301 and 341-344: one model call of the loop and what follows it, up to
\* the first tool call or the final text
cmd_terrarium_model_call(response) ==
    /\ req.pc = "await_model"
    /\ LET iteration == req.iteration + 1
           warn == WarningDue(iteration, req.warning_sent)
           messages == IF warn THEN Append(req.messages, WarningTurn) ELSE req.messages
           sent == IF warn THEN Append(outbox, "still_working") ELSE outbox
           tool_calls == response.message.tool_calls
       IN  IF ~response.ok
           THEN /\ req' = Idle
                /\ outbox' = Append(sent, "error")
                /\ obs' = [obs EXCEPT !.model_calls = @ + 1, !.model_failed = TRUE,
                                      !.state = "error"]
                /\ Spend(0, 0, 0, 0)
                /\ UNCHANGED <<contexts, dbHistory, dbSummary>>
           ELSE IF tool_calls # <<>>
           THEN /\ used.tool_rounds < MaxToolRounds
                /\ used.rich + ReplyCost(response = ToolReply(CallList(1, "ok", iteration)))
                       <= MaxRich
                /\ Store(req.channel,
                         add_tool_call_message(StateOf(req.channel), response.message))
                /\ req' = [req EXCEPT
                             !.pc = "execute_tools",
                             !.iteration = iteration,
                             !.warning_sent = @ \/ warn,
                             !.messages = Append(messages, response.message),
                             !.tool_calls = tool_calls,
                             !.next_tool = 0]
                /\ outbox' = sent
                /\ obs' = [obs EXCEPT !.model_calls = @ + 1, !.tool_rounds = @ + 1]
                /\ Spend(0, 0, 1,
                         ReplyCost(response = ToolReply(CallList(1, "ok", iteration))))
           ELSE /\ used.rich + Cost(response = TextReply(DefaultFinalText)) <= MaxRich
                /\ req' = [req EXCEPT
                             !.pc = "done",
                             !.iteration = iteration,
                             !.warning_sent = @ \/ warn,
                             !.messages = messages,
                             !.final_response = response.message.content]
                /\ outbox' = sent
                /\ obs' = [obs EXCEPT !.model_calls = @ + 1]
                /\ Spend(0, 0, 0, Cost(response = TextReply(DefaultFinalText)))
                /\ UNCHANGED <<contexts, dbHistory, dbSummary>>
    /\ UNCHANGED ircLog
    /\ UNCHANGED aside

\* lines 309-313: json.loads of the arguments, {} when it raises JSONDecodeError
ParseArguments(arguments) == IF arguments = "malformed" THEN "empty" ELSE arguments

\* where the loop goes after the last tool result of an iteration: lines 339, 246, 346
AfterToolRound(r) ==
    IF LoopContinues(r.iteration)
    THEN [r EXCEPT !.pc = "await_model"]
    ELSE [r EXCEPT !.pc = "done", !.final_response = CannedApology]

\* lines 322-328 without the tool_call_id
ToolResultMessage_without_id(tool_call, tool_result) ==
    Turn("tool", tool_result, <<>>, NoId, tool_call.name)

\* lines 322-328 with the role of the harness's own turns
ToolResultMessage_as_system(tool_call, tool_result) ==
    Turn("system", tool_result, <<>>, tool_call.id, tool_call.name)

\* lines 322-328
ToolResultMessage(tool_call, tool_result) ==
    Turn("tool", tool_result, <<>>, tool_call.id, tool_call.name)

\* the `for tool_call in tool_calls` of line 304, after one more result was recorded
AfterToolCall(r) ==
    IF r.next_tool = Len(r.tool_calls) THEN AfterToolRound(r) ELSE r

\* lines 304-339: the next tool call of the response
cmd_terrarium_execute_tool ==
    /\ req.pc = "execute_tools"
    /\ LET tool_call == req.tool_calls[req.next_tool + 1]
           tool_args == ParseArguments(tool_call.arguments)
           tool_result == execute_tool(tool_call.name, tool_args)
           tool_result_message == ToolResultMessage(tool_call, tool_result.text)
           recorded == [req EXCEPT !.messages = Append(@, tool_result_message),
                                   !.next_tool = @ + 1]
       IN  IF tool_result.raised
           THEN /\ RequestFails
                /\ obs' = [obs EXCEPT !.tool_raised = TRUE, !.state = "error"]
                /\ UNCHANGED <<contexts, dbHistory, dbSummary>>
           ELSE /\ Store(req.channel,
                         add_tool_result(StateOf(req.channel), tool_result_message))
                /\ req' = AfterToolCall(recorded)
                /\ UNCHANGED <<obs, outbox>>
    /\ UNCHANGED <<ircLog, used>>
    /\ UNCHANGED aside

\* lines 346-385: the final text is recorded and sent
cmd_terrarium_finish ==
    /\ req.pc = "done"
    /\ Store(req.channel, add_assistant_message(StateOf(req.channel), req.final_response))
    /\ outbox' = Append(outbox, "answer")
    /\ obs' = [obs EXCEPT !.final_texts = @ + 1, !.state = "done"]
    /\ req' = Idle
    /\ UNCHANGED <<ircLog, used>>
    /\ UNCHANGED aside

\* cmd_compact, lines 391-400
cmd_compact(ch, outcome) ==
    /\ CanStartCommand
    /\ LET context == get_context(ch)
           calls == SummarizeCallsModel(context)
           after == maybe_summarize(context, outcome)
       IN  /\ IF calls
              THEN used.rich + Cost(outcome \in DefaultSummaryOutcomes) <= MaxRich
              ELSE outcome = SummaryFailed
           /\ Store(ch, after)
           /\ obs' = [obs EXCEPT
                        !.summarize = Summarized(ch, calls, outcome, context, after)]
           /\ Spend(1, 0, 0, IF calls THEN Cost(outcome \in DefaultSummaryOutcomes) ELSE 0)
    /\ outbox' = <<"compacted">>
    /\ UNCHANGED <<ircLog, req>>
    /\ UNCHANGED aside

\* cmd_clear, lines 532-538
cmd_clear(ch) ==
    /\ CanStartCommand
    /\ Store(ch, clear_channel(ch))
    /\ outbox' = <<"cleared">>
    /\ Spend(1, 0, 0, 0)
    /\ UNCHANGED <<ircLog, req, obs>>
    /\ UNCHANGED aside

\* the process ends and is started again: main.py builds a new ContextManager
\* over the same database file
Restart ==
    /\ CanStartCommand
    /\ \E ch \in Channels : contexts[ch].cached
    /\ contexts' = [ch \in Channels |-> NotCached]
    /\ outbox' = <<>>
    /\ Spend(1, 0, 0, 0)
    /\ UNCHANGED <<dbHistory, dbSummary, ircLog, req, obs>>
    /\ UNCHANGED aside

-----------------------------------------------------------------------------
(* Initial states: a fresh process over a database that earlier runs have filled *)

PlainExchangeRows ==
    <<[role |-> "user", content |-> DefaultUserText],
      [role |-> "assistant", content |-> DefaultFinalText]>>

RECURSIVE PlainPairs(_)
PlainPairs(n) == IF n = 0 THEN <<>> ELSE PlainPairs(n - 1) \o PlainExchangeRows

\* the rows one request with a single search leaves behind
ToolExchangeRows ==
    LET calls == CallList(1, "ok", 1)
        result == execute_tool(calls[1].name, calls[1].arguments)
    IN  <<[role |-> "user", content |-> DefaultUserText],
          [role |-> "assistant", content |-> json_dumps(ToolReply(calls).message)],
          [role |-> "tool",
           content |-> json_dumps(Turn("tool", result.text, <<>>, calls[1].id,
                                       calls[1].name))],
          [role |-> "assistant", content |-> DefaultFinalText]>>

TailPairs == (SUMMARY_RETAIN_TURNS - 2) \div 2

\* the database files a run starts from: the rows of conversation_history and
\* whether the messages table holds events of the channel
InitStores ==
    {[rows |-> <<>>, logged |-> FALSE, summary |-> None],
     [rows |-> PlainPairs(LongPairs), logged |-> TRUE, summary |-> None],
     [rows |-> PlainPairs(HeadPairs) \o ToolExchangeRows \o PlainPairs(TailPairs),
      logged |-> TRUE, summary |-> EarlierSummaryText]}

NoBudget == [pc |-> "none", lists |-> <<>>, returned |-> <<>>]

\* a tool call on the enhancement directory that is not running
NoCall == [pc |-> "idle", filename |-> <<>>]

NoNotes ==
    [files |-> {}, now |-> 0, made |-> 0, calls |-> [ch \in Channels |-> NoCall],
     last |-> [tool |-> "", filename |-> <<>>, payload |-> "", read |-> <<>>]]

\* no final text has reached the end of cmd_terrarium
NoFinisher ==
    [pc |-> "none", final_response |-> <<>>,
     cs |-> [ctx |-> NewChannelContext, rows |-> <<>>, summ |-> None], sent |-> <<>>]

\* split_long_response has not been called
NoSplit == [pc |-> "none", response |-> <<>>, max_length |-> 0, chunks |-> <<>>]

\* no request to the model endpoint has been made
NoRetry ==
    [pc |-> "none", max_retries |-> 0, outcomes |-> <<>>, attempt |-> 0, slept |-> <<>>,
     result |-> [raised |-> FALSE, what |-> ""]]

\* no command coroutine has been scheduled
NoTasks == <<>>

\* the loop has not received a model response
NoFallback ==
    [pc |-> "none", content |-> <<>>, structured |-> <<>>,
     written |-> [name |-> "", pairs |-> <<>>], lead |-> <<>>,
     tool_calls |-> <<>>, final_response |-> <<>>]

\* no search has been asked for
NoSearch == [pc |-> "none", query |-> <<>>, command |-> <<>>, tool |-> <<>>]

\* the variables beside `v` as they are when their part of the program is not run
IdleBeside(v) ==
    /\ IF v = "budget" THEN TRUE ELSE budget = NoBudget
    /\ IF v = "notes" THEN TRUE ELSE notes = NoNotes
    /\ IF v = "finisher" THEN TRUE ELSE finisher = NoFinisher
    /\ IF v = "split" THEN TRUE ELSE split = NoSplit
    /\ IF v = "retry" THEN TRUE ELSE retry = NoRetry
    /\ IF v = "tasks" THEN TRUE ELSE tasks = NoTasks
    /\ IF v = "fallback" THEN TRUE ELSE fallback = NoFallback
    /\ IF v = "search" THEN TRUE ELSE search = NoSearch

\* the conversation of a process that has just started over one of `stores`
ConversationInit(stores) ==
    /\ contexts = [ch \in Channels |-> NotCached]
    /\ \E store \in stores :
           /\ dbHistory = [ch \in Channels |->
                              IF ch \in MainChannels THEN store.rows ELSE <<>>]
           /\ ircLog = [ch \in Channels |-> ch \in MainChannels /\ store.logged]
           /\ dbSummary = [ch \in Channels |->
                              IF ch \in MainChannels THEN store.summary ELSE None]
    /\ req = Idle
    /\ obs = NoRequestYet
    /\ outbox = <<>>
    /\ used = [commands |-> 0, requests |-> 0, tool_rounds |-> 0, rich |-> 0]

Init ==
    /\ ConversationInit(InitStores)
    /\ IdleBeside("")

\* the iterations at which the model is let to answer with several tool calls or
\* with a call that makes the tool raise: the first, the warning one and the last
RichIterations == {1, TOOL_WARNING_ITERATION, MAX_TOOL_ITERATIONS}

ChatReplies(iteration) ==
    {ChatFailed}
    \cup {TextReply(t) : t \in FinalTexts}
    \cup {ToolReply(CallList(1, "ok", iteration))}
    \cup (IF iteration \in RichIterations
          THEN {ToolReply(CallList(n, p, iteration)) : n \in 1..MaxToolCalls, p \in CallPatterns}
          ELSE {})

Next ==
    \/ \E ch \in MainChannels : cmd_terrarium_usage(ch)
    \/ \E ch \in MainChannels, args \in UserTexts : cmd_terrarium_begin(ch, args)
    \/ \E outcome \in SummaryOutcomes : cmd_terrarium_summarize(outcome)
    \/ cmd_terrarium_assemble
    \/ \E response \in ChatReplies(req.iteration + 1) : cmd_terrarium_model_call(response)
    \/ cmd_terrarium_execute_tool
    \/ cmd_terrarium_finish
    \/ \E ch \in MainChannels, outcome \in SummaryOutcomes : cmd_compact(ch, outcome)
    \/ \E ch \in MainChannels : cmd_clear(ch)
    \/ Restart

Spec == Init /\ [][Next]_vars

-----------------------------------------------------------------------------
(* bot/commands.py: _estimate_prompt_tokens and _determine_max_tokens.        *)
(* A message is given by the number of characters line 93-103 count for it.   *)

Max(a, b) == IF a >= b THEN a ELSE b
Min(a, b) == IF a <= b THEN a ELSE b

RECURSIVE total_chars(_)
total_chars(messages) ==
    IF messages = <<>> THEN 0
    ELSE total_chars(Tail(messages)) + Head(messages) + ROLE_METADATA_CHARS

\* lines 92-106
_estimate_prompt_tokens(messages) == Max(1, total_chars(messages) \div CHARS_PER_TOKEN)

\* lines 109-118 with the literal of line 113 replaced by MIN_COMPLETION_TOKENS
_determine_max_tokens_exhausted_gets_min(messages) ==
    LET prompt_tokens == _estimate_prompt_tokens(messages)
        available == MODEL_CONTEXT_LIMIT - prompt_tokens - COMPLETION_BUFFER
        max_tokens == IF available <= 0 THEN MIN_COMPLETION_TOKENS
                      ELSE IF available < MIN_COMPLETION_TOKENS
                      THEN Max(FLOOR_COMPLETION_TOKENS, available)
                      ELSE Min(MAX_COMPLETION_TOKENS, available)
    IN  <<max_tokens, prompt_tokens>>

\* lines 109-118 without the max() of line 115
_determine_max_tokens_unfloored(messages) ==
    LET prompt_tokens == _estimate_prompt_tokens(messages)
        available == MODEL_CONTEXT_LIMIT - prompt_tokens - COMPLETION_BUFFER
        max_tokens == IF available <= 0 THEN FLOOR_COMPLETION_TOKENS
                      ELSE IF available < MIN_COMPLETION_TOKENS
                      THEN available
                      ELSE Min(MAX_COMPLETION_TOKENS, available)
    IN  <<max_tokens, prompt_tokens>>

\* lines 109-118 without the min() of line 117
_determine_max_tokens_uncapped(messages) ==
    LET prompt_tokens == _estimate_prompt_tokens(messages)
        available == MODEL_CONTEXT_LIMIT - prompt_tokens - COMPLETION_BUFFER
        max_tokens == IF available <= 0 THEN FLOOR_COMPLETION_TOKENS
                      ELSE IF available < MIN_COMPLETION_TOKENS
                      THEN Max(FLOOR_COMPLETION_TOKENS, available)
                      ELSE available
    IN  <<max_tokens, prompt_tokens>>

\* lines 109-118
_determine_max_tokens(messages) ==
    LET prompt_tokens == _estimate_prompt_tokens(messages)
        available == MODEL_CONTEXT_LIMIT - prompt_tokens - COMPLETION_BUFFER
        max_tokens == IF available <= 0 THEN FLOOR_COMPLETION_TOKENS
                      ELSE IF available < MIN_COMPLETION_TOKENS
                      THEN Max(FLOOR_COMPLETION_TOKENS, available)
                      ELSE Min(MAX_COMPLETION_TOKENS, available)
    IN  <<max_tokens, prompt_tokens>>

\* the prompt sizes at which _determine_max_tokens changes branch, the smallest
\* ones and some beyond the context limit
ContextRoom == MODEL_CONTEXT_LIMIT - COMPLETION_BUFFER

KeyPrompts ==
    {ContextRoom - room + d :
        room \in {MAX_COMPLETION_TOKENS, MIN_COMPLETION_TOKENS, FLOOR_COMPLETION_TOKENS, 0},
        d \in (0 - PromptSlack)..PromptSlack}
    \cup {1, 2, MODEL_CONTEXT_LIMIT, MODEL_CONTEXT_LIMIT + MODEL_CONTEXT_LIMIT}

\* the characters of one message that alone makes a prompt of `tokens` tokens
CharsFor(tokens) == tokens * CHARS_PER_TOKEN - ROLE_METADATA_CHARS

KeyMessages == {Max(0, CharsFor(tokens)) : tokens \in KeyPrompts}

ShortMessages == {0, CHARS_PER_TOKEN}

RECURSIVE MessageLists(_)
MessageLists(n) ==
    IF n = 0 THEN {<<>>}
    ELSE IF n = 1 THEN {<<>>} \cup {<<chars>> : chars \in KeyMessages}
    ELSE MessageLists(n - 1)
         \cup {Append(list, chars) : list \in MessageLists(n - 1) \ {<<>>},
                                     chars \in ShortMessages}

\* the message lists of two model calls
BudgetInit ==
    /\ ConversationInit({[rows |-> <<>>, logged |-> FALSE, summary |-> None]})
    /\ IdleBeside("budget")
    /\ \E first \in MessageLists(MaxBudgetMessages),
          second \in MessageLists(MaxBudgetMessages) :
           budget = [pc |-> "ready", lists |-> <<first, second>>, returned |-> <<>>]

\* line 261: the budget of the next model call
determine_max_tokens ==
    /\ budget.pc = "ready"
    /\ LET k == Len(budget.returned) + 1
       IN  budget' = [budget EXCEPT
                        !.returned = Append(@, _determine_max_tokens(budget.lists[k])),
                        !.pc = IF k = Len(budget.lists) THEN "done" ELSE "ready"]
    /\ UNCHANGED <<conversation, beside_budget>>

BudgetNext == determine_max_tokens

BudgetSpec == BudgetInit /\ [][BudgetNext]_vars

-----------------------------------------------------------------------------
(* llm/tool_executor.py: the enhancement requests under data/enhancements.    *)
(* A path is the sequence of its components; a component is a file name, made *)
(* of a timestamp (0 when it has none) and a text.                            *)

Name(text) == [stamp |-> 0, slug |-> text]

\* the names of which another name of the model is a proper prefix, as strings
ProperPrefixes == {<<"enhancements_old", "enhancements">>}

\* str.startswith between two components
NameStartsWith(name, prefix) ==
    \/ name = prefix
    \/ name.stamp = prefix.stamp /\ <<name.slug, prefix.slug>> \in ProperPrefixes

\* the working directory of the process, and self.enhancement_dir (line 31), resolved
WorkingDir == <<Name("app")>>
enhancement_dir == WorkingDir \o <<Name("data"), Name("enhancements")>>

\* Path.resolve of an absolute path without symbolic links: "." and ".." are applied
RECURSIVE resolve_onto(_, _)
resolve_onto(done, parts) ==
    IF parts = <<>> THEN done
    ELSE IF Head(parts) = Name(".") THEN resolve_onto(done, Tail(parts))
    ELSE IF Head(parts) = Name("..")
    THEN resolve_onto(IF done = <<>> THEN done ELSE SubSeq(done, 1, Len(done) - 1),
                      Tail(parts))
    ELSE resolve_onto(Append(done, Head(parts)), Tail(parts))

\* (self.enhancement_dir / filename).resolve(), line 265: an absolute filename
\* replaces the directory
resolve(filename) ==
    IF filename.absolute THEN resolve_onto(<<>>, filename.parts)
    ELSE resolve_onto(enhancement_dir, filename.parts)

\* str(target).startswith(str(base)), line 267, the paths joined with "/"
str_startswith(target, base) ==
    /\ Len(target) >= Len(base)
    /\ \A i \in 1..(Len(base) - 1) : target[i] = base[i]
    /\ NameStartsWith(target[Len(base)], base[Len(base)])

\* the files outside data/enhancements
OtherFiles ==
    {WorkingDir \o <<Name("data"), Name("enhancements_old"), Name("secret.md")>>,
     WorkingDir \o <<Name(".env")>>,
     <<Name("etc"), Name("passwd")>>}

\* target.exists() and target.is_file()
IsFile(target) ==
    \/ target \in OtherFiles
    \/ \E name \in notes.files : target = Append(enhancement_dir, name)

IsDirectory(target) ==
    \/ \E path \in OtherFiles \cup {Append(enhancement_dir, Name("x"))} :
           Len(target) < Len(path) /\ SubSeq(path, 1, Len(target)) = target

\* _read_enhancement_request, lines 261-280: the payload, and the file read if any;
\* read_text of a directory raises
_read_enhancement_request(filename) ==
    LET target == resolve(filename)
    IN  IF filename.parts = <<>> THEN [payload |-> "filename is required", read |-> <<>>]
        ELSE IF ~str_startswith(target, enhancement_dir)
        THEN [payload |-> "Invalid filename", read |-> <<>>]
        ELSE IF ~(IsFile(target) \/ IsDirectory(target))
        THEN [payload |-> "File not found", read |-> <<>>]
        ELSE IF IsDirectory(target) THEN [payload |-> "raised", read |-> <<>>]
        ELSE [payload |-> "ok", read |-> target]

\* the filename arguments of read_enhancement_request
Relative(parts) == [absolute |-> FALSE, parts |-> parts]
Absolute(parts) == [absolute |-> TRUE, parts |-> parts]

OldFile(k) == [stamp |-> 0 - k, slug |-> "old"]

Filenames ==
    {Relative(<<>>),
     Relative(<<OldFile(1)>>),
     Relative(<<Name("missing.md")>>),
     Relative(<<Name(".")>>),
     Relative(<<Name("sub"), Name(".."), OldFile(1)>>),
     Relative(<<Name(".."), Name("enhancements"), OldFile(1)>>),
     Relative(<<Name(".."), Name("enhancements_old"), Name("secret.md")>>),
     Relative(<<Name(".."), Name("enhancements_old"), Name("missing.md")>>),
     Relative(<<Name(".."), Name(".."), Name(".env")>>),
     Relative(<<Name(".."), Name(".."), Name(".."), Name(".."), Name("etc"), Name("passwd")>>),
     Absolute(<<Name("etc"), Name("passwd")>>)}

\* titles, as the slug line 181 makes of them; "" for a title or summary left out
Titles == {"", "a", "b"}

NoteCallAllowed == notes.made < MaxNoteCalls

Finished(ch, tool, filename, result) ==
    [notes EXCEPT !.calls[ch] = NoCall,
                  !.last = [tool |-> tool, filename |-> filename,
                            payload |-> result.payload, read |-> result.read]]

\* _create_enhancement_request, lines 168-190: up to the await of get_recent_messages
create_enhancement_request_begin(ch, title) ==
    /\ NoteCallAllowed
    /\ notes.calls[ch].pc = "idle"
    /\ LET started == [notes EXCEPT !.made = @ + 1]
           filename == [stamp |-> notes.now, slug |-> title]
           refused(error) ==
               [started EXCEPT !.last = [tool |-> "create", filename |-> filename,
                                         payload |-> error, read |-> <<>>]]
       IN  notes' =
               IF title = "" THEN refused("Both 'title' and 'summary' are required")
               ELSE IF Cardinality(notes.files) >= MAX_ENHANCEMENTS
               THEN refused("Maximum reached")
               ELSE [started EXCEPT !.calls[ch] = [pc |-> "write", filename |-> filename]]
    /\ UNCHANGED <<conversation, beside_notes>>

\* _create_enhancement_request, lines 191-234: after the await, the file is written
create_enhancement_request_write(ch) ==
    /\ notes.calls[ch].pc = "write"
    /\ notes' = [Finished(ch, "create", notes.calls[ch].filename,
                          [payload |-> "Enhancement request created", read |-> <<>>])
                    EXCEPT !.files = @ \cup {notes.calls[ch].filename}]
    /\ UNCHANGED <<conversation, beside_notes>>

\* _read_enhancement_request: it has no await
read_enhancement_request(ch, filename) ==
    /\ NoteCallAllowed
    /\ notes.calls[ch].pc = "idle"
    /\ notes' = [Finished(ch, "read", filename, _read_enhancement_request(filename))
                    EXCEPT !.made = @ + 1]
    /\ UNCHANGED <<conversation, beside_notes>>

\* datetime.utcnow() in seconds
Tick ==
    /\ notes.now < MaxSeconds
    /\ notes' = [notes EXCEPT !.now = @ + 1]
    /\ UNCHANGED <<conversation, beside_notes>>

\* the directory holds the files of earlier runs
NoteInit ==
    /\ ConversationInit({[rows |-> <<>>, logged |-> FALSE, summary |-> None]})
    /\ IdleBeside("notes")
    /\ \E n \in {1, MAX_ENHANCEMENTS - 2, MAX_ENHANCEMENTS - 1, MAX_ENHANCEMENTS} :
           notes = [NoNotes EXCEPT !.files = {OldFile(k) : k \in 1..n}]

NoteNext ==
    \/ \E ch \in Channels, title \in Titles : create_enhancement_request_begin(ch, title)
    \/ \E ch \in Channels : create_enhancement_request_write(ch)
    \/ \E ch \in Channels, filename \in Filenames : read_enhancement_request(ch, filename)
    \/ Tick

NoteSpec == NoteInit /\ [][NoteNext]_vars

-----------------------------------------------------------------------------
(* llm/context.py: split_long_response.                                       *)
(* A text is the sequence of its characters; a reasoning delimiter, a         *)
(* timestamp, a speaker name in angle brackets and one long word are each     *)
(* taken as a whole, with the number of characters they stand for.            *)

SEND_MAX_LENGTH == 400

\* a word of as many characters as one message may have
LongWord == "aaa...a"

CharLen(c) ==
    CASE c = LongWord -> SEND_MAX_LENGTH
      [] c = "<bob>" -> 5
      [] c = "<thin>" -> 6
      [] c \in {"<think>", "<THINK>", "</thin>", "[12:00]"} -> 7
      [] c = "</think>" -> 8
      [] c = "<thought>" -> 9
      [] c = "</thought>" -> 10
      [] c = "</thinking>" -> 11
      [] OTHER -> 1

\* len(text)
RECURSIVE str_len(_)
str_len(text) == IF text = <<>> THEN 0 ELSE CharLen(Head(text)) + str_len(Tail(text))

IsSpace(c) == c = " "

\* str.lstrip(), str.rstrip() and str.strip()
RECURSIVE str_lstrip(_)
str_lstrip(text) ==
    IF text # <<>> /\ IsSpace(Head(text)) THEN str_lstrip(Tail(text)) ELSE text

RECURSIVE str_rstrip(_)
str_rstrip(text) ==
    IF text # <<>> /\ IsSpace(text[Len(text)])
    THEN str_rstrip(SubSeq(text, 1, Len(text) - 1))
    ELSE text

str_strip(text) == str_rstrip(str_lstrip(text))

\* str.replace(old, new)
RECURSIVE str_replace(_, _, _)
str_replace(text, old, new) ==
    IF Len(text) < Len(old) THEN text
    ELSE IF SubSeq(text, 1, Len(old)) = old
         THEN new \o str_replace(SubSeq(text, Len(old) + 1, Len(text)), old, new)
         ELSE <<Head(text)>> \o str_replace(Tail(text), old, new)

\* str.split(sep): the parts between the separators, empty ones included
RECURSIVE str_split_on(_, _)
str_split_on(text, sep) ==
    LET seps == {i \in 1..Len(text) : text[i] = sep}
    IN  IF seps = {} THEN <<text>>
        ELSE LET i == CHOOSE k \in seps : \A m \in seps : k <= m
             IN  <<SubSeq(text, 1, i - 1)>>
                 \o str_split_on(SubSeq(text, i + 1, Len(text)), sep)

\* str.split(): the runs of characters that are not whitespace
RECURSIVE str_split(_)
str_split(text) ==
    LET rest == str_lstrip(text)
        spaces == {i \in 1..Len(rest) : IsSpace(rest[i])}
    IN  IF rest = <<>> THEN <<>>
        ELSE IF spaces = {} THEN <<rest>>
        ELSE LET i == CHOOSE k \in spaces : \A m \in spaces : k <= m
             IN  <<SubSeq(rest, 1, i - 1)>> \o str_split(SubSeq(rest, i, Len(rest)))

\* line 146
Sentences(response) ==
    str_split_on(
        str_replace(str_replace(str_replace(response, <<".", " ">>, <<".", "|">>),
                                <<"!", " ">>, <<"!", "|">>),
                    <<"?", " ">>, <<"?", "|">>),
        "|")

\* lines 148-157: the sentences gathered into chunks
RECURSIVE GatherSentences(_, _, _, _)
GatherSentences(sentences, chunks, current_chunk, max_length) ==
    IF sentences = <<>>
    THEN IF current_chunk # <<>> THEN Append(chunks, str_strip(current_chunk)) ELSE chunks
    ELSE LET sentence == Head(sentences)
         IN  IF str_len(current_chunk) + str_len(sentence) <= max_length
             THEN GatherSentences(Tail(sentences), chunks, current_chunk \o sentence,
                                  max_length)
             ELSE GatherSentences(Tail(sentences),
                                  IF current_chunk # <<>>
                                  THEN Append(chunks, str_strip(current_chunk))
                                  ELSE chunks,
                                  sentence, max_length)

\* lines 165-175: the words of one chunk gathered into chunks
RECURSIVE GatherWords(_, _, _, _)
GatherWords(words, final_chunks, current, max_length) ==
    IF words = <<>>
    THEN IF current # <<>> THEN Append(final_chunks, current) ELSE final_chunks
    ELSE LET word == Head(words)
         IN  IF str_len(current) + str_len(word) + 1 <= max_length
             THEN GatherWords(Tail(words), final_chunks,
                              IF current # <<>> THEN current \o <<" ">> \o word ELSE word,
                              max_length)
             ELSE GatherWords(Tail(words),
                              IF current # <<>> THEN Append(final_chunks, current)
                              ELSE final_chunks,
                              word, max_length)

\* lines 160-175
RECURSIVE SplitChunks(_, _, _)
SplitChunks(chunks, final_chunks, max_length) ==
    IF chunks = <<>> THEN final_chunks
    ELSE LET chunk == Head(chunks)
         IN  SplitChunks(Tail(chunks),
                         IF str_len(chunk) <= max_length
                         THEN Append(final_chunks, chunk)
                         ELSE GatherWords(str_split(chunk), final_chunks, <<>>, max_length),
                         max_length)

split_long_response(response, max_length) ==
    IF str_len(response) <= max_length THEN <<response>>
    ELSE SplitChunks(GatherSentences(Sentences(response), <<>>, <<>>, max_length),
                     <<>>, max_length)

\* the texts of at most n characters of an alphabet
Texts(alphabet, n) == UNION {[1..k -> alphabet] : k \in 0..n}

SplitAlphabet == {"a", " ", ".", "?", "|"}

SplitInit ==
    /\ ConversationInit({[rows |-> <<>>, logged |-> FALSE, summary |-> None]})
    /\ IdleBeside("split")
    /\ \E response \in Texts(SplitAlphabet, MaxTextLen), max_length \in 1..MaxLimit :
           split = [pc |-> "ready", response |-> response, max_length |-> max_length,
                    chunks |-> <<>>]

split_response ==
    /\ split.pc = "ready"
    /\ split' = [split EXCEPT !.chunks = split_long_response(split.response,
                                                             split.max_length),
                              !.pc = "done"]
    /\ UNCHANGED <<conversation, beside_split>>

SplitNext == split_response

SplitSpec == SplitInit /\ [][SplitNext]_vars

-----------------------------------------------------------------------------
(* bot/commands.py: the end of cmd_terrarium, lines 352-385 *)

\* str.lower() of a delimiter, for re.IGNORECASE
lower(c) == IF c = "<THINK>" THEN "<think>" ELSE c

\* re.sub(opening + '.*?' + closing, '', text, flags=re.DOTALL | re.IGNORECASE):
\* from the left, each opening delimiter is removed with everything up to the
\* nearest closing delimiter after it
re_sub_pairs_keeps_content(text, opening, closing) ==
    SelectSeq(text, LAMBDA c : lower(c) \notin opening \cup closing)

RECURSIVE re_sub_pairs(_, _, _)
re_sub_pairs(text, opening, closing) ==
    LET opens == {i \in 1..Len(text) : lower(text[i]) \in opening}
    IN  IF opens = {} THEN text
        ELSE LET i == CHOOSE k \in opens : \A m \in opens : k <= m
                 closes == {j \in (i + 1)..Len(text) : lower(text[j]) \in closing}
             IN  IF closes = {} THEN text
                 ELSE LET j == CHOOSE k \in closes : \A m \in closes : k <= m
                      IN  SubSeq(text, 1, i - 1)
                          \o re_sub_pairs(SubSeq(text, j + 1, Len(text)),
                                          opening, closing)

\* lines 364-367
strip_thinking(final_response) ==
    str_strip(
        re_sub_pairs(
            re_sub_pairs(
                re_sub_pairs(final_response, {"<think>", "<thinking>"},
                             {"</think>", "</thinking>"}),
                {"<thought>"}, {"</thought>"}),
            {"<thin>"}, {"</thin>"}))

\* \w or \s, and a word in angle brackets
IsWordOrSpace(c) == c \in {"a", " ", LongWord}
IsBracketed(c) == c \in {"<bob>", "<think>", "<THINK>", "<thinking>", "<thought>", "<thin>"}

\* the longest run of word and space characters a text begins with
RECURSIVE WordSpaceRun(_)
WordSpaceRun(text) ==
    IF text # <<>> /\ IsWordOrSpace(Head(text)) THEN 1 + WordSpaceRun(Tail(text)) ELSE 0

\* line 373: re.sub(r'^\[\d{2}:\d{2}\]\s*<?[\w\s]+>?\s*', '', text)
strip_echoed_prefix(text) ==
    IF text = <<>> \/ Head(text) # "[12:00]" THEN text
    ELSE LET rest == Tail(text)
             after_spaces == str_lstrip(rest)
         IN  IF after_spaces # <<>> /\ IsBracketed(Head(after_spaces))
             THEN str_lstrip(Tail(after_spaces))
             ELSE IF WordSpaceRun(rest) > 0
             THEN SubSeq(rest, WordSpaceRun(rest) + 1, Len(rest))
             ELSE text

\* lines 364-376
CleanResponse(final_response) == str_strip(strip_echoed_prefix(strip_thinking(final_response)))

\* lines 380-384: what send_message is given for each chunk
SendChunks(chunks) ==
    [i \in 1..Len(chunks) |->
        [lead |-> IF i = 1 THEN "nick: " ELSE "... ", text |-> chunks[i]]]

FinishAlphabet ==
    {"<think>", "</think>", "</thinking>", "<THINK>", "<thought>", "</thought>",
     "<thin>", "</thin>", "a", " ", "[12:00]", "<bob>"}

\* what may follow the markup: nothing, or two words that do not fit one message
FinalTails == {<<>>, <<" ", LongWord, " ", LongWord>>}

FinalResponses ==
    {markup \o rest : markup \in Texts(FinishAlphabet, MaxMarkupLen), rest \in FinalTails}

FinishInit ==
    /\ ConversationInit({[rows |-> <<>>, logged |-> FALSE, summary |-> None]})
    /\ IdleBeside("finisher")
    /\ \E final_response \in FinalResponses :
           finisher = [NoFinisher EXCEPT !.pc = "ready",
                                         !.final_response = final_response,
                                         !.cs.ctx.loaded = TRUE]

\* line 360
record_final_response ==
    /\ finisher.pc = "ready"
    /\ finisher' = [finisher EXCEPT
                      !.cs = add_assistant_message(@, finisher.final_response),
                      !.pc = "recorded"]
    /\ UNCHANGED <<conversation, beside_finisher>>

\* lines 364-385
send_response ==
    /\ finisher.pc = "recorded"
    /\ finisher' = [finisher EXCEPT
                      !.sent = SendChunks(split_long_response(
                                   CleanResponse(finisher.final_response),
                                   SEND_MAX_LENGTH)),
                      !.pc = "sent"]
    /\ UNCHANGED <<conversation, beside_finisher>>

FinishNext == record_final_response \/ send_response

FinishSpec == FinishInit /\ [][FinishNext]_vars

-----------------------------------------------------------------------------
(* llm/agent_client.py: _request_with_retry *)

\* what requests.request did in one attempt: it returned a response, given by
\* the class of its status code, or it raised an exception of requests.exceptions
Responses == {"2xx", "4xx", "5xx"}
Exceptions == {"ReadTimeout", "ConnectTimeout", "ConnectionError", "TooManyRedirects"}
Outcomes == Responses \cup Exceptions

\* the classes imported in line 11 that an exception is an instance of:
\* ConnectTimeout derives from both ConnectionError and Timeout
InstanceOf(exception) ==
    CASE exception = "ReadTimeout" -> {"Timeout", "RequestException"}
      [] exception = "ConnectTimeout" -> {"ConnectionError", "Timeout", "RequestException"}
      [] exception = "ConnectionError" -> {"ConnectionError", "RequestException"}
      [] exception = "TooManyRedirects" -> {"RequestException"}

\* lines 192-202: the first except clause in order that matches
ExceptClause(exception) ==
    IF "Timeout" \in InstanceOf(exception) THEN "Timeout"
    ELSE IF "ConnectionError" \in InstanceOf(exception) THEN "ConnectionError"
    ELSE "RequestException"

Return == [raised |-> FALSE, what |-> "response.json()"]
AgentClientError(message) == [raised |-> TRUE, what |-> message]

\* a wait that grows by two seconds with each attempt
sleep_seconds_linear(attempt) == 2 * attempt

\* lines 178, 194, 204: time.sleep(2 ** attempt)
sleep_seconds(attempt) == 2 ^ attempt

\* lines 177-183, 193-197, 203-207: sleep and continue, or raise after the last attempt
RetryOrRaise(r, outcome, message) ==
    IF r.attempt < r.max_retries - 1
    THEN [r EXCEPT !.outcomes = Append(@, outcome),
                   !.slept = Append(@, sleep_seconds(r.attempt)),
                   !.attempt = @ + 1]
    ELSE [r EXCEPT !.outcomes = Append(@, outcome),
                   !.pc = "done",
                   !.result = AgentClientError(message)]

Ends(r, outcome, result) ==
    [r EXCEPT !.outcomes = Append(@, outcome), !.pc = "done", !.result = result]

\* lines 167-207: one pass of the loop, `outcome` being what requests.request did
AfterAttempt(r, outcome) ==
    CASE outcome = "5xx" -> RetryOrRaise(r, outcome, "Server error")
      [] outcome = "4xx" -> Ends(r, outcome, AgentClientError("Request error"))
      [] outcome = "2xx" -> Ends(r, outcome, Return)
      [] outcome \in Exceptions /\ ExceptClause(outcome) = "Timeout" ->
             RetryOrRaise(r, outcome, "Request timed out")
      [] outcome \in Exceptions /\ ExceptClause(outcome) = "ConnectionError" ->
             Ends(r, outcome, AgentClientError("Cannot connect"))
      [] outcome \in Exceptions /\ ExceptClause(outcome) = "RequestException" ->
             RetryOrRaise(r, outcome, "Request failed")

RetryInit ==
    /\ ConversationInit({[rows |-> <<>>, logged |-> FALSE, summary |-> None]})
    /\ IdleBeside("retry")
    /\ \E max_retries \in 0..MaxMaxRetries :
           retry = [NoRetry EXCEPT !.pc = "running", !.max_retries = max_retries]

\* lines 166-207: for attempt in range(self.max_retries)
request_attempt(outcome) ==
    /\ retry.pc = "running"
    /\ retry.attempt < retry.max_retries
    /\ retry' = AfterAttempt(retry, outcome)
    /\ UNCHANGED <<conversation, beside_retry>>

\* line 209: the loop ended without a return or a raise
raise_unexpected ==
    /\ retry.pc = "running"
    /\ retry.attempt >= retry.max_retries
    /\ retry' = [retry EXCEPT !.pc = "done", !.result = AgentClientError("Unexpected error")]
    /\ UNCHANGED <<conversation, beside_retry>>

RetryNext ==
    \/ \E outcome \in Outcomes : request_attempt(outcome)
    \/ raise_unexpected

\* requests.request is given a timeout and time.sleep returns: a call goes on
RetrySpec == RetryInit /\ [][RetryNext]_vars /\ WF_vars(RetryNext)

-----------------------------------------------------------------------------
(* bot/irc_client.py: handle_message schedules every command as a coroutine   *)
(* of its own on the one event loop, and no lock orders them. A coroutine     *)
(* runs until it waits for the database (aiosqlite), for a tool or for the    *)
(* send delay, and the others run meanwhile. The database thread carries out  *)
(* the statements in the order they were issued, so a statement takes effect  *)
(* when it is issued and its result reaches the coroutine when it resumes.    *)
(* The model call blocks the loop (requests), so nothing runs during it.      *)

\* two commands arrive while neither has ended
TaskIds == {1, 2}
Commands == {"terrarium", "compact", "clear"}

\* a call of maybe_summarize that reached its model call: whether it is running,
\* has returned or has raised, the channel's state it began with and its
\* turns_to_summarize (line 234)
NoCompaction ==
    [state |-> "none", before |-> ChannelState(NotCached, <<>>, None), chosen |-> <<>>]

NoTask ==
    [pc |-> "none", command |-> "", channel |-> "", args |-> None,
     history_read |-> <<>>, summary_read |-> None, after |-> "",
     write_failed |-> FALSE, rounds |-> 0, tool_call |-> <<>>, state |-> "",
     compaction |-> NoCompaction]

\* a coroutine at work: its locals and the state of its channel
Work(task, cs) == [task |-> task, cs |-> cs]
At(w, pc) == [w EXCEPT !.task.pc = pc]
Ended(w, state) == [w EXCEPT !.task.pc = "done", !.task.state = state]

\* an add_* call of lines 141-219: the turn is appended to the in-memory
\* history, then the INSERT is issued; `added` is the state with both done, and
\* a failed INSERT leaves the rows as they were
Recorded(w, added, ok, pc) ==
    [task |-> [w.task EXCEPT !.pc = pc, !.write_failed = ~ok],
     cs |-> IF ok THEN added ELSE [added EXCEPT !.rows = w.cs.rows]]

\* load(), lines 37-40: the SELECT is issued
start_load(w, after) ==
    [w EXCEPT !.task.pc = "load_history",
              !.task.history_read = get_conversation_history(w.cs.rows),
              !.task.after = after]

\* get_messages_for_api, lines 87-104: load() if not loaded, then the recent events
begin_messages_for_api(w) ==
    IF w.cs.ctx.loaded THEN At(w, "assembling") ELSE start_load(w, "assemble")

\* maybe_summarize is left, by return or by the exception of a failed write
Left(w, state) ==
    IF w.task.compaction.state = "running"
    THEN [w EXCEPT !.task.compaction.state = state]
    ELSE w

\* where a coroutine goes when maybe_summarize returns: commands.py lines 203, 396
after_summarize(w, after) ==
    IF after = "assemble" THEN begin_messages_for_api(Left(w, "returned"))
    ELSE Ended(Left(w, "returned"), "compacted")

\* maybe_summarize, lines 231-269: up to the save of the new summary, which is
\* issued after self.summary is set and may fail (ok = FALSE)
begin_summarize(w, outcome, after, ok) ==
    LET summary_text == strip(outcome.content)
        began == [w EXCEPT !.task.compaction =
                      [state |-> "running", before |-> w.cs,
                       chosen |-> AllButLastN(w.cs.ctx.conversation_history,
                                              SUMMARY_RETAIN_TURNS)]]
    IN  IF ~SummarizeCallsModel(w.cs) THEN after_summarize(w, after)
        ELSE IF outcome.ok /\ Truthy(summary_text)
        THEN [task |-> [began.task EXCEPT !.pc = "saving_summary", !.after = after,
                                         !.write_failed = ~ok],
              cs |-> [w.cs EXCEPT !.ctx.summary = summary_text,
                                  !.summ = IF ok
                                           THEN save_conversation_summary(@, summary_text)
                                           ELSE @]]
        ELSE after_summarize(began, after)

\* where a coroutine goes when load() returns
after_load(w, ok, outcome) ==
    CASE w.task.after = "add_user" ->
             Recorded(w, add_user_message(w.cs, w.task.args), ok, "saving_user")
      [] w.task.after = "assemble" -> At(w, "assembling")
      [] w.task.after = "summarize" -> begin_summarize(w, outcome, "reply", ok)

\* get_context, lines 382-386, and what the command does with the context
\* until it waits
start_command(w, ok, outcome) ==
    LET created == [w EXCEPT !.cs.ctx = NewChannelContext]
    IN  CASE w.task.command = "terrarium" ->
                 IF w.cs.ctx.cached
                 THEN Recorded(w, add_user_message(w.cs, w.task.args), ok, "saving_user")
                 ELSE start_load(created, "add_user")
          [] w.task.command = "compact" ->
                 IF w.cs.ctx.cached
                 THEN begin_summarize(w, outcome, "reply", ok)
                 ELSE start_load(created, "summarize")
          [] w.task.command = "clear" ->
                 IF w.cs.ctx.cached
                 THEN [task |-> [w.task EXCEPT !.pc = "clearing_history"],
                       cs |-> [w.cs EXCEPT !.ctx.conversation_history = <<>>,
                                           !.ctx.summary = None,
                                           !.rows = clear_conversation_history(@)]]
                 ELSE Ended(w, "cleared")

\* every coroutine working on the state of the one same channel
ChannelOf_first(task) == CHOOSE ch \in MainChannels : TRUE

\* the channel whose context and rows a coroutine works on
ChannelOf(task) == task.channel

\* a coroutine runs from where it waited to where it waits next
Resume(t, w) ==
    /\ tasks' = [tasks EXCEPT ![t] = w.task]
    /\ Store(ChannelOf(tasks[t]), w.cs)
    /\ UNCHANGED <<ircLog, req, obs, outbox, used, beside_tasks>>

Working(t) == Work(tasks[t], StateOf(ChannelOf(tasks[t])))

TaskStores ==
    {[first |-> <<>>, second |-> PlainExchangeRows],
     [first |-> PlainPairs(LongPairs), second |-> PlainExchangeRows]}

TaskInit ==
    /\ contexts = [ch \in Channels |-> NotCached]
    /\ \E store \in TaskStores :
           dbHistory = [ch \in Channels |->
                           IF ch \in MainChannels THEN store.first ELSE store.second]
    /\ dbSummary = [ch \in Channels |-> None]
    /\ ircLog = [ch \in Channels |-> FALSE]
    /\ req = Idle
    /\ obs = NoRequestYet
    /\ outbox = <<>>
    /\ used = [commands |-> 0, requests |-> 0, tool_rounds |-> 0, rich |-> 0]
    /\ IdleBeside("tasks")
    /\ tasks = [t \in TaskIds |-> NoTask]

\* irc_client.py lines 236-245: run_coroutine_threadsafe(self._handle_command(...))
schedule(t, command, ch) ==
    /\ tasks[t].pc = "none"
    /\ \A earlier \in TaskIds : earlier < t => tasks[earlier].pc # "none"
    /\ tasks' = [tasks EXCEPT ![t] = [NoTask EXCEPT !.pc = "scheduled",
                                                    !.command = command,
                                                    !.channel = ch,
                                                    !.args = Plain(ToString(t))]]
    /\ UNCHANGED <<conversation, beside_tasks>>

\* the command begins: commands.py lines 189-199, 394-395, 535
task_start(t, ok, outcome) ==
    /\ tasks[t].pc = "scheduled"
    /\ Resume(t, start_command(Working(t), ok, outcome))

\* load(), lines 40-69: the rows have come, the summary is asked for
task_history_loaded(t) ==
    /\ tasks[t].pc = "load_history"
    /\ LET w == Working(t)
       IN  Resume(t, [task |-> [w.task EXCEPT
                                  !.pc = "load_summary",
                                  !.summary_read = get_conversation_summary(w.cs.summ)],
                      cs |-> [w.cs EXCEPT !.ctx.conversation_history =
                                              HydrateHistory(w.task.history_read)]])

\* load(), lines 69-70, and on from where load() was called
task_summary_loaded(t, ok, outcome) ==
    /\ tasks[t].pc = "load_summary"
    /\ LET w == Working(t)
       IN  Resume(t, after_load([w EXCEPT !.cs.ctx.summary = w.task.summary_read,
                                          !.cs.ctx.loaded = TRUE],
                                ok, outcome))

\* commands.py lines 199-203: the user turn is saved; maybe_summarize
task_user_saved(t, outcome, ok) ==
    /\ tasks[t].pc = "saving_user"
    /\ LET w == Working(t)
       IN  Resume(t, IF w.task.write_failed THEN Ended(w, "error")
                     ELSE begin_summarize(w, outcome, "assemble", ok))

\* maybe_summarize, lines 269-271: the summary is saved, or the save has raised;
\* the history is cut in memory and the cut of the rows is issued
task_summary_saved(t, ok) ==
    /\ tasks[t].pc = "saving_summary"
    /\ LET w == Working(t)
       IN  Resume(t, IF w.task.write_failed THEN Ended(Left(w, "raised"), "error")
                     ELSE [task |-> [w.task EXCEPT !.pc = "cutting_history",
                                                   !.write_failed = ~ok],
                           cs |-> [w.cs EXCEPT
                                     !.ctx.conversation_history =
                                         LastN(@, SUMMARY_RETAIN_TURNS),
                                     !.rows = IF ok
                                              THEN keep_latest_conversation_turns(
                                                       @, SUMMARY_RETAIN_TURNS)
                                              ELSE @]])

\* maybe_summarize, lines 271-272: the rows are cut, or the cut has raised
task_history_cut(t) ==
    /\ tasks[t].pc = "cutting_history"
    /\ LET w == Working(t)
       IN  Resume(t, IF w.task.write_failed THEN Ended(Left(w, "raised"), "error")
                     ELSE after_summarize(w, tasks[t].after))

\* the tool rounds the coroutines have run so far
RECURSIVE RoundsRun(_)
RoundsRun(ts) ==
    IF ts = {} THEN 0
    ELSE LET t == CHOOSE x \in ts : TRUE
         IN  tasks[t].rounds + RoundsRun(ts \ {t})

\* commands.py lines 240-345: the model is called and its message recorded
task_model_call(t, response, ok) ==
    /\ tasks[t].pc \in {"assembling", "saving_result"}
    /\ response.message.tool_calls # <<>> => RoundsRun(TaskIds) < MaxTaskRounds
    /\ LET w == [Working(t) EXCEPT !.task.compaction = NoCompaction]
       IN  Resume(t,
               IF w.task.write_failed \/ ~response.ok THEN Ended(w, "error")
               ELSE IF response.message.tool_calls # <<>>
               THEN Recorded([w EXCEPT !.task.rounds = @ + 1,
                                       !.task.tool_call = response.message.tool_calls[1]],
                             add_tool_call_message(w.cs, response.message),
                             ok, "saving_call")
               ELSE Recorded(w, add_assistant_message(w.cs, response.message.content),
                             ok, "saving_final"))

\* commands.py lines 298-320: the tool-call turn is saved; the tool is started
task_call_saved(t) ==
    /\ tasks[t].pc = "saving_call"
    /\ LET w == Working(t)
       IN  Resume(t, IF w.task.write_failed THEN Ended(w, "error")
                     ELSE At(w, "tool_running"))

\* commands.py lines 316-331: the tool has answered; its result is recorded
task_tool_done(t, ok) ==
    /\ tasks[t].pc = "tool_running"
    /\ LET w == Working(t)
           tool_call == w.task.tool_call
           tool_result == execute_tool(tool_call.name, ParseArguments(tool_call.arguments))
       IN  Resume(t, IF tool_result.raised THEN Ended(w, "error")
                     ELSE Recorded(w,
                                   add_tool_result(w.cs, ToolResultMessage(tool_call,
                                                                          tool_result.text)),
                                   ok, "saving_result"))

\* commands.py lines 360-385: the final turn is saved; the chunks are sent
task_final_saved(t) ==
    /\ tasks[t].pc = "saving_final"
    /\ LET w == Working(t)
       IN  Resume(t, Ended(w, IF w.task.write_failed THEN "error" ELSE "answered"))

\* clear(), lines 225-226: the rows are deleted; the empty summary is saved
task_history_cleared(t) ==
    /\ tasks[t].pc = "clearing_history"
    /\ LET w == Working(t)
       IN  Resume(t, [task |-> [w.task EXCEPT !.pc = "clearing_summary"],
                      cs |-> [w.cs EXCEPT !.summ = save_conversation_summary(@, EmptyStr)]])

\* clear(), line 227, and commands.py line 536
task_summary_cleared(t) ==
    /\ tasks[t].pc = "clearing_summary"
    /\ Resume(t, Ended(Working(t), "cleared"))

\* the first command is given on the main channel, the second on either
ChannelsOf(t) == IF \A other \in TaskIds : t <= other THEN MainChannels ELSE Channels

TaskReplies == {ChatFailed, TextReply(DefaultFinalText), ToolReply(CallList(1, "ok", 1))}

TaskNext ==
    \E t \in TaskIds :
        \/ \E command \in Commands, ch \in ChannelsOf(t) : schedule(t, command, ch)
        \/ \E ok \in BOOLEAN, outcome \in DefaultSummaryOutcomes : task_start(t, ok, outcome)
        \/ task_history_loaded(t)
        \/ \E ok \in BOOLEAN, outcome \in DefaultSummaryOutcomes :
               task_summary_loaded(t, ok, outcome)
        \/ \E outcome \in DefaultSummaryOutcomes, ok \in BOOLEAN :
               task_user_saved(t, outcome, ok)
        \/ \E ok \in BOOLEAN : task_summary_saved(t, ok)
        \/ task_history_cut(t)
        \/ \E response \in TaskReplies, ok \in BOOLEAN : task_model_call(t, response, ok)
        \/ task_call_saved(t)
        \/ \E ok \in BOOLEAN : task_tool_done(t, ok)
        \/ task_final_saved(t)
        \/ task_history_cleared(t)
        \/ task_summary_cleared(t)

TaskSpec == TaskInit /\ [][TaskNext]_vars

-----------------------------------------------------------------------------
(* bot/commands.py: _coerce_fallback_value, _parse_fallback_tool_request and   *)
(* lines 274-344 of the loop. A text is the sequence of its characters, as     *)
(* above; a word (a name, a key, a number), and a <tool_result> delimiter,     *)
(* whole or cut short, are each taken as a whole, and no two words stand side  *)
(* by side.                                                                    *)

FALLBACK_TOOL_NAMES ==
    {"search_chat_logs", "get_current_users", "create_enhancement_request",
     "list_enhancement_requests", "read_enhancement_request", "search_web"}

\* Python values of an argument: str, int, float, bool and None
PyStr(text) == [type |-> "str", text |-> text]
PyInt(text) == [type |-> "int", text |-> text]
PyFloat(text) == [type |-> "float", text |-> text]
PyBool(text) == [type |-> "bool", text |-> text]
NoneValue == [type |-> "None", text |-> <<>>]

Quote == "\""
Numerals == {"24", "7"}
Decimals == {"1.5"}

\* what _FUNCTION_CALL_PATTERN takes for the name when the token is followed by
\* `\s*\(`: the word itself, the word a cut closing delimiter ends with, or nothing
NotAName == ""
NameOf(c) ==
    CASE c \in {"(", ")", ",", "=", " ", ":", Quote, "<tool_result>", "</tool_result>",
                "tool_result>"} -> NotAName
      [] c \in Numerals \cup Decimals -> NotAName
      [] c = "</tool_result" -> "tool_result"
      [] OTHER -> c

\* _coerce_fallback_value without the int() of line 51
_coerce_fallback_value_keeps_text(raw) ==
    LET value == str_strip(raw)
    IN  IF value = <<>> THEN PyStr(<<>>)
        ELSE IF Head(value) = Quote /\ value[Len(value)] = Quote
        THEN PyStr(SubSeq(value, 2, Len(value) - 1))
        ELSE IF value \in {<<"none">>, <<"null">>} THEN NoneValue
        ELSE IF value \in {<<"true">>, <<"false">>} THEN PyBool(value)
        ELSE IF Len(value) = 1 /\ value[1] \in Decimals THEN PyFloat(value)
        ELSE PyStr(value)

\* _coerce_fallback_value, lines 33-53
_coerce_fallback_value(raw) ==
    LET value == str_strip(raw)
    IN  IF value = <<>> THEN PyStr(<<>>)
        ELSE IF Head(value) = Quote /\ value[Len(value)] = Quote
        THEN PyStr(SubSeq(value, 2, Len(value) - 1))
        ELSE IF value \in {<<"none">>, <<"null">>} THEN NoneValue
        ELSE IF value \in {<<"true">>, <<"false">>} THEN PyBool(value)
        ELSE IF Len(value) = 1 /\ value[1] \in Decimals THEN PyFloat(value)
        ELSE IF Len(value) = 1 /\ value[1] \in Numerals THEN PyInt(value)
        ELSE PyStr(value)

\* the least element of a non-empty set of positions
First(positions) == CHOOSE k \in positions : \A m \in positions : k <= m

NoMatch == [found |-> FALSE, body |-> <<>>]

\* _TOOL_RESULT_PATTERN.search(text), lines 17-20 and 66: the body between the
\* first opening delimiter and the nearest closing delimiter after it
tool_result_search(text) ==
    LET opens == {i \in 1..Len(text) : text[i] = "<tool_result>"}
    IN  IF opens = {} THEN NoMatch
        ELSE LET i == First(opens)
                 closes == {j \in (i + 1)..Len(text) : text[j] = "</tool_result>"}
             IN  IF closes = {} THEN NoMatch
                 ELSE [found |-> TRUE,
                       body |-> str_strip(SubSeq(text, i + 1, First(closes) - 1))]

NoCallMatch == [found |-> FALSE, name |-> NotAName, args |-> <<>>]

\* _FUNCTION_CALL_PATTERN.search(candidate), lines 21-23 and 72: the leftmost
\* name that whitespace and "(" follow, with everything up to the nearest ")"
function_call_search(candidate) ==
    LET opened(i) == Len(str_lstrip(SubSeq(candidate, i + 1, Len(candidate)))) > 0
                     /\ Head(str_lstrip(SubSeq(candidate, i + 1, Len(candidate)))) = "("
        paren(i) == First({j \in (i + 1)..Len(candidate) : candidate[j] = "("})
        closed(i) == {j \in (paren(i) + 1)..Len(candidate) : candidate[j] = ")"}
        starts == {i \in 1..Len(candidate) :
                      NameOf(candidate[i]) # NotAName /\ opened(i) /\ closed(i) # {}}
    IN  IF starts = {} THEN NoCallMatch
        ELSE LET i == First(starts)
             IN  [found |-> TRUE, name |-> NameOf(candidate[i]),
                  args |-> SubSeq(candidate, paren(i) + 1, First(closed(i)) - 1)]

\* lines 83-87: the parts between the commas; a part without "=" is passed over
\* and a key given twice keeps its last value
RECURSIVE ParseParts(_, _)
ParseParts(parts, args) ==
    IF parts = <<>> THEN args
    ELSE LET part == Head(parts)
             equals == {i \in 1..Len(part) : part[i] = "="}
         IN  IF equals = {} THEN ParseParts(Tail(parts), args)
             ELSE LET key == str_strip(SubSeq(part, 1, First(equals) - 1))
                      value == SubSeq(part, First(equals) + 1, Len(part))
                  IN  ParseParts(Tail(parts),
                                 (key :> _coerce_fallback_value(value)) @@ args)

NoArgs == <<>>
NoRequest == [found |-> FALSE, tool_name |-> NotAName, args |-> NoArgs]

\* _parse_fallback_tool_request, lines 56-89
_parse_fallback_tool_request(content) ==
    IF content = <<>> THEN NoRequest
    ELSE LET text == str_strip(content)
             match == tool_result_search(text)
             candidate == IF match.found THEN match.body ELSE text
             func_match == function_call_search(candidate)
             args_str == str_strip(func_match.args)
         IN  IF ~func_match.found THEN NoRequest
             ELSE IF func_match.name \notin FALLBACK_TOOL_NAMES THEN NoRequest
             ELSE [found |-> TRUE, tool_name |-> func_match.name,
                   args |-> IF args_str = <<>> THEN NoArgs
                            ELSE ParseParts(str_split_on(args_str, ","), NoArgs)]

\* lines 274-291: the tool calls of a response, the synthesized one included
ToolCallsOf(response_message) ==
    LET fallback_request == _parse_fallback_tool_request(response_message.content)
    IN  IF response_message.tool_calls # <<>> THEN response_message.tool_calls
        ELSE IF fallback_request.found
        THEN <<ToolCall(<<"fallback">>, fallback_request.tool_name,
                        json_dumps(fallback_request.args))>>
        ELSE <<>>

\* a call as a model writes it: name(key=value, key=value)
RECURSIVE RenderArgs(_)
RenderArgs(pairs) ==
    IF pairs = <<>> THEN <<>>
    ELSE <<Head(pairs)[1], "=">> \o Head(pairs)[2]
         \o (IF Len(pairs) > 1 THEN <<",", " ">> ELSE <<>>)
         \o RenderArgs(Tail(pairs))

RenderCall(call) == <<call.name, "(">> \o RenderArgs(call.pairs) \o <<")">>

ArgKeys == <<"query", "hours", "user">>
ArgLiterals ==
    {<<Quote, "docker", Quote>>, <<"24">>, <<"true">>,
     <<Quote, "a", ",", " ", "b", Quote>>}

ArgLists(n) ==
    UNION {{[i \in 1..k |-> <<ArgKeys[i], literals[i]>>] : literals \in [1..k -> ArgLiterals]}
           : k \in 0..n}

WrittenNames == {"search_chat_logs", "get_current_users", "foo"}
WrittenCalls == {[name |-> name, pairs |-> pairs] :
                     name \in WrittenNames, pairs \in ArgLists(MaxArgs)}

\* what the model writes before the call, and the delimiters around both
Leads == {<<>>, <<"ok", ":", " ">>, <<"check", " ", "(", "now", ")", ":", " ">>}
Wrappings ==
    {[open |-> <<>>, close |-> <<>>],
     [open |-> <<"<tool_result>", " ">>, close |-> <<" ", "</tool_result>">>],
     [open |-> <<"tool_result>", " ">>, close |-> <<" ", "</tool_result">>]}

FallbackInit ==
    /\ ConversationInit({[rows |-> <<>>, logged |-> FALSE, summary |-> None]})
    /\ IdleBeside("fallback")
    /\ \E structured \in {<<>>, CallList(1, "ok", 1)} :
           \/ \E call \in WrittenCalls, lead \in Leads, wrapping \in Wrappings :
                  fallback = [NoFallback EXCEPT
                                !.pc = "responded",
                                !.content = wrapping.open \o lead \o RenderCall(call)
                                            \o wrapping.close,
                                !.structured = structured,
                                !.written = call,
                                !.lead = lead]
           \/ fallback = [NoFallback EXCEPT !.pc = "responded",
                                            !.structured = structured]

\* lines 274-344: the tool calls of the response, and where the loop goes
handle_response ==
    /\ fallback.pc = "responded"
    /\ LET response_message ==
               Turn("assistant", fallback.content, fallback.structured, NoId, "")
           tool_calls == ToolCallsOf(response_message)
       IN  fallback' = [fallback EXCEPT
                          !.tool_calls = tool_calls,
                          !.pc = IF tool_calls # <<>> THEN "execute_tools" ELSE "final",
                          !.final_response =
                              IF tool_calls # <<>> THEN <<>> ELSE response_message.content]
    /\ UNCHANGED <<conversation, beside_fallback>>

FallbackNext == handle_response

FallbackSpec == FallbackInit /\ [][FallbackNext]_vars

-----------------------------------------------------------------------------
(* The two ways to a search: bot/commands.py, cmd_search, lines 430-446, and   *)
(* llm/tool_executor.py, _search_chat_logs, lines 84-97. Each gives the query  *)
(* and the search_mode that search_messages is called with, or does not search.*)

NotSearched == [searched |-> FALSE, search_mode |-> "", query |-> <<>>]
Searched(search_mode, query) ==
    [searched |-> TRUE, search_mode |-> search_mode, query |-> query]

Contains(text, c) == \E i \in 1..Len(text) : text[i] = c

\* str[1:-1]
Inner(text) == SubSeq(text, 2, Len(text) - 1)

\* cmd_search, lines 430-446; re.match(r'^"(.+)"$', query) asks for a character
\* between the quotes
SearchOfCommand(remaining_args) ==
    LET query == str_strip(remaining_args)
    IN  IF query = <<>> THEN NotSearched
        ELSE IF Len(query) >= 3 /\ Head(query) = Quote /\ query[Len(query)] = Quote
        THEN Searched("phrase", Inner(query))
        ELSE IF Contains(query, "+") THEN Searched("or", query)
        ELSE Searched("and", query)

\* _search_chat_logs, lines 84-97
SearchOfTool(query) ==
    IF query = <<>> THEN NotSearched
    ELSE IF Head(query) = Quote /\ query[Len(query)] = Quote
    THEN Searched("phrase", Inner(query))
    ELSE IF Contains(query, "+") THEN Searched("or", query)
    ELSE Searched("and", query)

QueryAlphabet == {Quote, "a", "+", " "}

SearchInit ==
    /\ ConversationInit({[rows |-> <<>>, logged |-> FALSE, summary |-> None]})
    /\ IdleBeside("search")
    /\ \E query \in Texts(QueryAlphabet, MaxQueryLen) :
           search = [NoSearch EXCEPT !.pc = "asked", !.query = query]

\* !search <query>
cmd_search ==
    /\ search.pc # "none"
    /\ search.command = <<>>
    /\ search' = [search EXCEPT !.command = <<SearchOfCommand(search.query)>>]
    /\ UNCHANGED <<conversation, beside_search>>

\* the tool call search_chat_logs(query=<query>)
search_chat_logs ==
    /\ search.pc # "none"
    /\ search.tool = <<>>
    /\ search' = [search EXCEPT !.tool = <<SearchOfTool(search.query)>>]
    /\ UNCHANGED <<conversation, beside_search>>

SearchNext == cmd_search \/ search_chat_logs

SearchSpec == SearchInit /\ [][SearchNext]_vars

-----------------------------------------------------------------------------
(* Shorthands of the properties *)

History(ch) == contexts[ch].conversation_history

Roles(turns) == [i \in 1..Len(turns) |-> turns[i].role]

\* the last request has ended, by its final text or by the handler's except clause
RequestEnded == req.pc = "idle" /\ obs.state \in {"done", "error"}

\* ... and no other command has run since
RequestJustEnded == RequestEnded /\ outbox # <<>> /\ outbox[1] = "thinking"

\* how many turns of the channel's history are older than the last request
TurnsBeforeRequest ==
    IF obs.compacted THEN SUMMARY_RETAIN_TURNS - 1 ELSE obs.start_len

\* the turns the last request has added to the in-memory history, and its rows
RequestTurns == SubSeq(History(obs.channel), TurnsBeforeRequest + 1,
                       Len(History(obs.channel)))

RequestRows == SubSeq(dbHistory[obs.channel], TurnsBeforeRequest + 1,
                      Len(dbHistory[obs.channel]))

IsToolCallTurn(turn) == turn.role = "assistant" /\ turn.tool_calls # <<>>

IsPlainTurn(turn) == turn.tool_calls = <<>> /\ turn.tool_call_id = NoId /\ turn.name = ""

\* the turn answers the call: a tool turn with the call's id and name
Answers(turn, call) ==
    turn.role = "tool" /\ turn.tool_call_id = call.id /\ turn.name = call.name

Count(turns, P(_)) == Cardinality({i \in 1..Len(turns) : P(turns[i])})

-----------------------------------------------------------------------------
(* C1 *)

\* C1: a request makes at most MAX_TOOL_ITERATIONS model calls and, whenever the
\* model answered each of them (with text or with tool calls), it ends having
\* yielded exactly one final text.
C1_OneFinalText ==
    /\ obs.model_calls <= MAX_TOOL_ITERATIONS
    /\ (RequestEnded /\ ~obs.model_failed) => obs.final_texts = 1

-----------------------------------------------------------------------------
(* C2 *)

IsApologyTurn(turn) == turn = PlainTurn("assistant", CannedApology)

\* C2: a request whose 8 model responses all asked for tools ends in DONE: the
\* canned apology is its final text and the last turn of the history, the 8
\* tool-call turns of the request are in the history, and no error was raised.
C2_CeilingEndsInApology ==
    (RequestJustEnded /\ obs.model_calls = MAX_TOOL_ITERATIONS
                      /\ obs.tool_rounds = MAX_TOOL_ITERATIONS /\ ~obs.model_failed)
    => /\ obs.state = "done"
       /\ obs.final_texts = 1
       /\ RequestTurns # <<>>
       /\ IsApologyTurn(RequestTurns[Len(RequestTurns)])
       /\ Count(RequestTurns, IsToolCallTurn) = MAX_TOOL_ITERATIONS

-----------------------------------------------------------------------------
(* C3 *)

\* scanning backwards from turn i over tool turns only, one reaches an assistant
\* turn whose tool_calls hold the id of turn i
FollowsItsRequest(h, i) ==
    \E j \in 1..(i - 1) :
        /\ h[j].role = "assistant"
        /\ \A k \in (j + 1)..(i - 1) : h[k].role = "tool"
        /\ \E c \in 1..Len(h[j].tool_calls) : h[j].tool_calls[c].id = h[i].tool_call_id

ToolTurnsPaired(h) ==
    \A i \in 1..Len(h) : h[i].role = "tool" => FollowsItsRequest(h, i)

\* C3: in a channel's history every tool turn follows an assistant turn that
\* requested it.
C3_ToolTurnsFollowRequest ==
    \A ch \in Channels : contexts[ch].cached => ToolTurnsPaired(History(ch))

-----------------------------------------------------------------------------
(* C4 *)

\* the turns are a sequence of tool exchanges: a tool-call turn followed by one
\* tool turn for each of its calls, in order
RECURSIVE IsToolExchanges(_)
IsToolExchanges(turns) ==
    \/ turns = <<>>
    \/ /\ IsToolCallTurn(turns[1])
       /\ LET n == Len(turns[1].tool_calls)
          IN  /\ Len(turns) >= n + 1
              /\ \A k \in 1..n : Answers(turns[k + 1], turns[1].tool_calls[k])
              /\ IsToolExchanges(SubSeq(turns, n + 2, Len(turns)))

IsUserTurn(turn) == turn.role = "user"

IsFinalTurn(turn) == turn.role = "assistant" /\ IsPlainTurn(turn)

\* the row is the persisted form of the turn
Persists(row, turn) ==
    /\ row.role = turn.role
    /\ row.content = IF IsPlainTurn(turn) THEN turn.content ELSE json_dumps(turn)

\* C4: a request that ends with its final text and without compaction has added
\* to the history, in memory and in storage: one user turn, one tool exchange per
\* iteration that asked for tools, one final assistant turn, in this order.
C4_TurnsOfARequest ==
    (RequestJustEnded /\ obs.state = "done" /\ ~obs.compacted)
    => LET turns == RequestTurns
           rows == RequestRows
           n == Len(turns)
       IN  /\ n >= 2
           /\ turns[1] = PlainTurn("user", obs.args)
           /\ IsFinalTurn(turns[n])
           /\ IsToolExchanges(SubSeq(turns, 2, n - 1))
           /\ Count(turns, IsUserTurn) = 1
           /\ Count(turns, IsFinalTurn) = 1
           /\ Count(turns, IsToolCallTurn) = obs.tool_rounds
           /\ Len(rows) = n
           /\ \A i \in 1..n : Persists(rows[i], turns[i])
           /\ (obs.tool_rounds = 1 /\ n = 4)
                  => Roles(rows) = <<"user", "assistant", "tool", "assistant">>

\* a request with a single search has ended with its answer
C4_Witness ==
    /\ RequestJustEnded /\ obs.state = "done" /\ ~obs.compacted
    /\ obs.tool_rounds = 1
    /\ Len(RequestTurns) = 4
    /\ RequestTurns[2].tool_calls[1].name = "search_chat_logs"

-----------------------------------------------------------------------------
(* C5 *)

\* the last turns of `turns` are the response with its tool calls, followed by
\* the results of its first `done` calls, in the order of the calls
EndsWithResults(turns, calls, done) ==
    /\ Len(turns) >= done + 1
    /\ LET base == Len(turns) - done
       IN  /\ IsToolCallTurn(turns[base])
           /\ turns[base].tool_calls = calls
           /\ \A k \in 1..done : Answers(turns[base + k], calls[k])

\* C5: the tools of a response run one at a time in the order received, the i-th
\* result carries the id and name of the i-th call, and the next model call is
\* made only when all results are in the history and in the message list.
C5_ToolsInOrder ==
    (req.pc \in {"execute_tools", "await_model"} /\ req.tool_calls # <<>>)
    => /\ req.next_tool <= Len(req.tool_calls)
       /\ EndsWithResults(History(req.channel), req.tool_calls, req.next_tool)
       /\ EndsWithResults(req.messages, req.tool_calls, req.next_tool)
       /\ req.pc = "await_model" => req.next_tool = Len(req.tool_calls)

\* the model is about to be called again after a response with two tool calls
C5_Witness ==
    /\ req.pc = "await_model"
    /\ Len(req.tool_calls) = 2
    /\ req.next_tool = 2
    /\ req.tool_calls[1].name # req.tool_calls[2].name

-----------------------------------------------------------------------------
(* C6 *)

\* what a context loaded from the channel's rows holds
Reloaded(ch) == load(ChannelState(NewChannelContext, dbHistory[ch], dbSummary[ch])).ctx

\* C6: persisted and loaded again, a channel's history is the history held in
\* memory: the same turns in the same order, a plain turn with the same content.
C6_RoundTrip ==
    \A ch \in Channels :
        contexts[ch].cached => Reloaded(ch).conversation_history = History(ch)

-----------------------------------------------------------------------------
(* C7 *)

IsEmptySummary(text) == ~Truthy(text)

\* C7: after !clear the channel has no turn and no summary, in storage and in
\* the context the next command gets, whether or not the channel was cached.
C7_ClearEmptiesChannel ==
    outbox = <<"cleared">>
    => \A ch \in MainChannels :
           /\ dbHistory[ch] = <<>>
           /\ IsEmptySummary(dbSummary[ch])
           /\ get_context(ch).ctx.conversation_history = <<>>
           /\ IsEmptySummary(get_context(ch).ctx.summary)

-----------------------------------------------------------------------------
(* C8 *)

\* the step is a run of maybe_summarize: by !compact, or within a request
CompactStep == outbox' = <<"compacted">> /\ used'.commands = used.commands + 1

SummarizeStep == req.pc = "summarize" /\ req'.pc = "assemble"

\* the last n elements of a sequence longer than n
LastTurns(seq, n) == [i \in 1..n |-> seq[Len(seq) - n + i]]

\* after the step the channel holds the summary `text`, the last
\* SUMMARY_RETAIN_TURNS turns of `before` and as many rows
CompactedTo(ch, before, text) ==
    /\ contexts'[ch].summary = text
    /\ dbSummary'[ch] = text
    /\ contexts'[ch].conversation_history =
           LastTurns(before.ctx.conversation_history, SUMMARY_RETAIN_TURNS)
    /\ dbHistory'[ch] = LastTurns(before.rows, SUMMARY_RETAIN_TURNS)

\* the step leaves the channel as the context `before` describes it
LeftAs(ch, before) ==
    /\ contexts'[ch] = before.ctx
    /\ dbHistory'[ch] = before.rows
    /\ dbSummary'[ch] = before.summ

\* C8 as stated: with more than 40 turns and a non-empty text returned by the
\* model, the summary is the returned text and history and rows are the last 12;
\* with at most 40 turns nothing changes and the model is not called.
C8_SummaryIsReturnedText ==
    [][(CompactStep \/ SummarizeStep)
       => LET run == obs'.summarize
              before == get_context(run.channel)
              turns == Len(before.ctx.conversation_history)
          IN  /\ (turns > SUMMARY_TRIGGER_TURNS /\ run.outcome.ok
                                                /\ Truthy(run.outcome.content))
                 => CompactedTo(run.channel, before, run.outcome.content)
              /\ turns <= SUMMARY_TRIGGER_TURNS
                 => ~run.called /\ LeftAs(run.channel, before)]_vars

\* C8 amended: with more than 40 turns and a returned text that is non-empty
\* once stripped, the summary is the stripped text and history and rows are the
\* last 12; a text that is empty once stripped changes nothing; with at most 40
\* turns nothing changes and the model is not called.
C8_SummaryIsStrippedText ==
    [][(CompactStep \/ SummarizeStep)
       => LET run == obs'.summarize
              before == get_context(run.channel)
              turns == Len(before.ctx.conversation_history)
          IN  /\ (turns > SUMMARY_TRIGGER_TURNS /\ run.outcome.ok
                                                /\ Truthy(strip(run.outcome.content)))
                 => /\ run.called
                    /\ CompactedTo(run.channel, before, strip(run.outcome.content))
              /\ (turns > SUMMARY_TRIGGER_TURNS /\ run.outcome.ok
                                                /\ ~Truthy(strip(run.outcome.content)))
                 => LeftAs(run.channel, before)
              /\ turns <= SUMMARY_TRIGGER_TURNS
                 => ~run.called /\ LeftAs(run.channel, before)]_vars

\* the model answered with a summary between blanks, and the channel was compacted
C8_Witness ==
    /\ obs.summarize.called
    /\ obs.summarize.outcome = SummaryReply(Padded("S1"))
    /\ obs.summarize.applied
    /\ contexts[obs.summarize.channel].summary = Plain("S1")
    /\ Len(History(obs.summarize.channel)) = SUMMARY_RETAIN_TURNS
    /\ Len(dbHistory[obs.summarize.channel]) = SUMMARY_RETAIN_TURNS

-----------------------------------------------------------------------------
(* C9 *)

\* C9: when the model call of the compaction fails, the compaction changes
\* nothing and the request goes on to assemble its messages and to its loop; the
\* failure alone never ends the request.
C9_SummaryFailureIsSilent ==
    /\ [][(SummarizeStep /\ obs'.summary_failed)
          => /\ contexts' = contexts
             /\ dbHistory' = dbHistory
             /\ dbSummary' = dbSummary
             /\ req'.pc = "assemble"
             /\ obs'.state = "running"
             /\ outbox' = outbox]_vars
    /\ [][(obs.summary_failed /\ req.pc = "assemble") => req'.pc = "await_model"]_vars
    /\ [](obs.summary_failed /\ RequestEnded /\ ~obs.model_failed /\ ~obs.tool_raised
          => obs.state = "done" /\ obs.final_texts = 1)

\* a request whose compaction failed has ended with its answer, uncompacted
C9_Witness ==
    /\ obs.summary_failed
    /\ RequestJustEnded /\ obs.state = "done" /\ obs.final_texts = 1
    /\ Len(History(obs.channel)) > SUMMARY_TRIGGER_TURNS + 1

-----------------------------------------------------------------------------
(* C10 *)

\* no turn was added to the channel since maybe_summarize last ran on it
SinceCompaction(ch) == obs.summarize.channel = ch /\ contexts[ch] = obs.summarize.result

\* C10 as stated: a compaction right after a compaction, no turn added in
\* between, leaves the summary and the history of the first.
C10_SecondCompactionChangesNothing ==
    [][((CompactStep \/ SummarizeStep) /\ SinceCompaction(obs'.summarize.channel))
       => LET ch == obs'.summarize.channel
          IN  /\ contexts'[ch].summary = contexts[ch].summary
              /\ contexts'[ch].conversation_history = contexts[ch].conversation_history]_vars

\* C10 amended: after a compaction that replaced the summary, or that found at
\* most 40 turns, a compaction with no turn added in between calls no model and
\* changes nothing, in memory and in storage.
C10_SecondCompactionAfterFirstDone ==
    [][((CompactStep \/ SummarizeStep) /\ SinceCompaction(obs'.summarize.channel)
                                       /\ (obs.summarize.applied \/ ~obs.summarize.called))
       => LET ch == obs'.summarize.channel
          IN  /\ ~obs'.summarize.called
              /\ contexts'[ch] = contexts[ch]
              /\ dbHistory'[ch] = dbHistory[ch]
              /\ dbSummary'[ch] = dbSummary[ch]]_vars

\* !compact has run twice in a row, and the first run has compacted the channel
C10_Witness ==
    /\ used.commands = 2
    /\ outbox = <<"compacted">>
    /\ obs.state = "none"
    /\ ~obs.summarize.called
    /\ contexts[obs.summarize.channel].summary = Plain("S1")
    /\ Len(History(obs.summarize.channel)) = SUMMARY_RETAIN_TURNS

-----------------------------------------------------------------------------
(* C11 *)

CountIn(seq, x) == Cardinality({i \in 1..Len(seq) : seq[i] = x})

\* C11: when a model call of the loop fails, the user gets one error message and
\* the channel's history and summary, in memory and in storage, are what they
\* were when the request began.
C11_ModelFailureLeavesStateUnchanged ==
    (RequestJustEnded /\ obs.model_failed)
    => /\ CountIn(outbox, "error") = 1
       /\ History(obs.channel) = obs.before.ctx.conversation_history
       /\ contexts[obs.channel].summary = obs.before.ctx.summary
       /\ dbHistory[obs.channel] = obs.before.rows
       /\ dbSummary[obs.channel] = obs.before.summ

-----------------------------------------------------------------------------
(* C12 *)

IsPrefix(a, b) == Len(a) <= Len(b) /\ SubSeq(b, 1, Len(a)) = a

\* the step runs the next tool call of the response
ToolStep == req.pc = "execute_tools" /\ req' # req

\* the loop is still running after the step, one tool call further
LoopGoesOn ==
    /\ req'.pc \in {"execute_tools", "await_model", "done"}
    /\ req'.next_tool = req.next_tool + 1
    /\ obs'.state = "running"

\* C12: no tool invocation, whatever happens inside it, aborts the loop or
\* touches the turns already recorded: after it the loop goes on to the next
\* tool call or to the next model call.
C12_ToolFailureNeverAborts ==
    [][ToolStep
       => /\ LoopGoesOn
          /\ IsPrefix(History(req.channel), contexts'[req.channel].conversation_history)
          /\ IsPrefix(dbHistory[req.channel], dbHistory'[req.channel])]_vars

-----------------------------------------------------------------------------
(* C13 *)

\* the arguments of the tool call are no JSON text of a mapping: text that
\* json.loads rejects, or JSON of a list, a string, a number or null
MalformedArguments == {"malformed", "not_mapping"}

\* C13: a tool call with a malformed argument payload is executed with the empty
\* argument set, its result is recorded as a tool turn, and the loop goes on.
C13_MalformedArgumentsRunEmpty ==
    [][(ToolStep /\ req.tool_calls[req.next_tool + 1].arguments \in MalformedArguments)
       => LET call == req.tool_calls[req.next_tool + 1]
              expected == ToolResultMessage(call, execute_tool(call.name, "empty").text)
              history == contexts'[req.channel].conversation_history
          IN  /\ LoopGoesOn
              /\ history = Append(History(req.channel), expected)
              /\ req'.messages = Append(req.messages, expected)]_vars

-----------------------------------------------------------------------------
(* C17 *)

\* the outbox and the counters of obs are those of the request
InRequest == obs.state = "running" \/ RequestJustEnded

\* C17: in one request the warning turn enters the message list and the 'still
\* working' notice is sent at most once each, both when iteration
\* TOOL_WARNING_ITERATION starts, that is after four responses that all asked
\* for tools; a request of four model calls or fewer has neither.
C17_WarningOnceAtThreshold ==
    /\ CountIn(req.messages, WarningTurn) <= 1
    /\ InRequest
       => /\ CountIn(outbox, "still_working") <= 1
          /\ CountIn(outbox, "still_working") = 1
             <=> obs.model_calls >= TOOL_WARNING_ITERATION
          /\ obs.model_calls >= TOOL_WARNING_ITERATION
             => obs.tool_rounds >= TOOL_WARNING_ITERATION - 1
    /\ req.pc \in {"await_model", "execute_tools", "done"}
       => (CountIn(req.messages, WarningTurn) = 1
           <=> req.iteration >= TOOL_WARNING_ITERATION)

\* the loop is two iterations past the warning
C17_Witness ==
    /\ req.pc = "await_model"
    /\ req.iteration = TOOL_WARNING_ITERATION + 2
    /\ CountIn(req.messages, WarningTurn) = 1
    /\ CountIn(outbox, "still_working") = 1

-----------------------------------------------------------------------------
(* C20 *)

KnownTools == {"search_chat_logs", "get_current_users"}

UnknownToolResult(tool_name) ==
    Wrapped(Plain("error: Unknown tool"), <<"tool_result", tool_name>>)

IsTagged(turn) == turn.content.wrap = <<"tool_result", turn.name>>

\* C20: a call of a tool the executor does not know raises nothing: its result
\* is the error payload, recorded like any other; and every recorded result is
\* wrapped in a block tagged with the name of the tool that was called.
C20_UnknownToolIsAnErrorPayload ==
    /\ [][(ToolStep /\ req.tool_calls[req.next_tool + 1].name \notin KnownTools)
          => LET call == req.tool_calls[req.next_tool + 1]
             IN  /\ LoopGoesOn
                 /\ contexts'[req.channel].conversation_history =
                        Append(History(req.channel),
                               ToolResultMessage(call, UnknownToolResult(call.name)))]_vars
    /\ [](\A ch \in Channels : \A i \in 1..Len(History(ch)) :
              History(ch)[i].role = "tool" => IsTagged(History(ch)[i]))

\* the result of an unknown tool is in the history, followed by that of a known one
C20_Witness ==
    /\ req.pc \in {"await_model", "done"}
    /\ Len(req.tool_calls) = 2
    /\ req.next_tool = 2
    /\ LET h == History(req.channel)
       IN  /\ h[Len(h) - 1].name = "search_web"
           /\ h[Len(h) - 1].content = UnknownToolResult("search_web")
           /\ h[Len(h)].name = "get_current_users"
           /\ IsTagged(h[Len(h)])

-----------------------------------------------------------------------------
(* C14 *)

\* the budget and the estimated prompt size of the k-th model call
MaxTokens(k) == budget.returned[k][1]
PromptTokens(k) == budget.returned[k][2]
Budgeted == 1..Len(budget.returned)

\* C14 as stated: every budget is at least MIN_COMPLETION_TOKENS and at most
\* MAX_COMPLETION_TOKENS.
C14_BudgetWithinMinAndMax ==
    \A k \in Budgeted :
        MIN_COMPLETION_TOKENS <= MaxTokens(k) /\ MaxTokens(k) <= MAX_COMPLETION_TOKENS

\* C14 amended: every budget is at least 32 and at most MAX_COMPLETION_TOKENS,
\* and at least MIN_COMPLETION_TOKENS when the prompt leaves that much room.
C14_BudgetWithinFloorAndMax ==
    \A k \in Budgeted :
        /\ FLOOR_COMPLETION_TOKENS <= MaxTokens(k)
        /\ MaxTokens(k) <= MAX_COMPLETION_TOKENS
        /\ ContextRoom - PromptTokens(k) >= MIN_COMPLETION_TOKENS
           => MaxTokens(k) >= MIN_COMPLETION_TOKENS

\* a prompt that leaves less than MIN_COMPLETION_TOKENS got a budget below it
C14_Witness ==
    \E k \in Budgeted :
        /\ ContextRoom - PromptTokens(k) < MIN_COMPLETION_TOKENS
        /\ ContextRoom - PromptTokens(k) > FLOOR_COMPLETION_TOKENS
        /\ MaxTokens(k) < MIN_COMPLETION_TOKENS

-----------------------------------------------------------------------------
(* C15 *)

\* C15: every budget is positive: it is min(MAX_COMPLETION_TOKENS, max(32,
\* MODEL_CONTEXT_LIMIT - estimated prompt - COMPLETION_BUFFER)), also for a
\* prompt beyond the context limit.
C15_BudgetIsClampedRoom ==
    \A k \in Budgeted :
        /\ MaxTokens(k) > 0
        /\ MaxTokens(k) =
               Min(MAX_COMPLETION_TOKENS,
                   Max(32, MODEL_CONTEXT_LIMIT - PromptTokens(k) - COMPLETION_BUFFER))

\* a prompt larger than the context limit got the smallest budget
C15_Witness ==
    \E k \in Budgeted :
        /\ PromptTokens(k) > MODEL_CONTEXT_LIMIT
        /\ MaxTokens(k) = 32

-----------------------------------------------------------------------------
(* C16 *)

\* C16 as stated: of two prompts the larger has the strictly smaller budget.
C16_BudgetStrictlyDecreases ==
    \A j, k \in Budgeted :
        PromptTokens(j) < PromptTokens(k) => MaxTokens(j) > MaxTokens(k)

\* C16 amended: of two prompts the larger never has the larger budget, and has
\* the strictly smaller one unless the smaller prompt is at the maximum or the
\* larger prompt at the floor of 32.
C16_BudgetNeverIncreases ==
    \A j, k \in Budgeted :
        PromptTokens(j) < PromptTokens(k)
        => /\ MaxTokens(j) >= MaxTokens(k)
           /\ (MaxTokens(j) < MAX_COMPLETION_TOKENS /\ MaxTokens(k) > FLOOR_COMPLETION_TOKENS)
              => MaxTokens(j) > MaxTokens(k)

\* two prompts of different sizes, both small enough for the maximum
C16_Witness ==
    /\ budget.pc = "done"
    /\ PromptTokens(1) < PromptTokens(2)
    /\ MaxTokens(1) = MAX_COMPLETION_TOKENS
    /\ MaxTokens(2) = MAX_COMPLETION_TOKENS

-----------------------------------------------------------------------------
(* C18 *)

\* the path lies in the directory: its first components are those of the directory
InsideStore(path) ==
    /\ Len(path) >= Len(enhancement_dir)
    /\ \A i \in 1..Len(enhancement_dir) : path[i] = enhancement_dir[i]

\* C18: read_enhancement_request answers 'Invalid filename', and reads no file,
\* for every filename that resolves outside data/enhancements, also one in a
\* sibling directory whose name begins with "enhancements".
C18_OutsideFilenamesRejected ==
    (notes.last.tool = "read" /\ notes.last.filename.parts # <<>>
                              /\ ~InsideStore(resolve(notes.last.filename)))
    => /\ notes.last.payload = "Invalid filename"
       /\ notes.last.read = <<>>

-----------------------------------------------------------------------------
(* C19 *)

\* C19: data/enhancements never holds more than MAX_ENHANCEMENTS files, however
\* the create_enhancement_request calls of different channels interleave.
C19_AtMostMaxEnhancements == Cardinality(notes.files) <= MAX_ENHANCEMENTS

-----------------------------------------------------------------------------
(* The response finisher *)

\* a delimiter pair: an opening delimiter and the closing one of the same spelling
Openings == {"<think>", "<thinking>", "<thought>", "<thin>"}
ClosingOf(opening) ==
    CASE opening = "<think>" -> "</think>"
      [] opening = "<thinking>" -> "</thinking>"
      [] opening = "<thought>" -> "</thought>"
      [] opening = "<thin>" -> "</thin>"

IsDelimiter(c) == lower(c) \in Openings \cup {ClosingOf(o) : o \in Openings}

IsPair(text, i, j) ==
    /\ i < j
    /\ lower(text[i]) \in Openings
    /\ lower(text[j]) = ClosingOf(lower(text[i]))

HasPair(text) == \E i, j \in 1..Len(text) : IsPair(text, i, j)

\* a position between the delimiters of a pair that holds no other delimiter
IsEnclosed(text, k) ==
    \E i, j \in 1..Len(text) :
        /\ IsPair(text, i, j)
        /\ i < k /\ k < j
        /\ \A m \in (i + 1)..(j - 1) : ~IsDelimiter(text[m])

IsContent(c) == ~IsDelimiter(c) /\ ~IsSpace(c)
ContentCount(text) == Cardinality({k \in 1..Len(text) : IsContent(text[k])})
EnclosedCount(text) ==
    Cardinality({k \in 1..Len(text) : IsContent(text[k]) /\ IsEnclosed(text, k)})

\* the chunks sent, one after the other
RECURSIVE SentText(_)
SentText(sent) == IF sent = <<>> THEN <<>> ELSE Head(sent).text \o SentText(Tail(sent))

-----------------------------------------------------------------------------
(* split_long_response *)

\* the whitespace-separated words of the pieces, taken in order
RECURSIVE WordsOfPieces(_)
WordsOfPieces(chunks) ==
    IF chunks = <<>> THEN <<>> ELSE str_split(Head(chunks)) \o WordsOfPieces(Tail(chunks))

\* C22: split_long_response returns a text that fits the limit as the one
\* piece, and of a longer text only pieces that are not longer than the limit.
C22_PiecesWithinLimit ==
    split.pc = "done" =>
        IF str_len(split.response) <= split.max_length
        THEN split.chunks = <<split.response>>
        ELSE \A i \in 1..Len(split.chunks) :
                 str_len(split.chunks[i]) <= split.max_length

\* C23: of a text longer than the limit, the words of the pieces, taken in
\* order, are the words of the text: none broken, fused with its neighbour or
\* dropped.
C23_WordsPreserved ==
    (split.pc = "done" /\ str_len(split.response) > split.max_length) =>
        WordsOfPieces(split.chunks) = str_split(split.response)

-----------------------------------------------------------------------------
(* The model client *)

Attempts == 1..Len(retry.outcomes)
IsConnectionFailure(outcome) ==
    outcome \in Exceptions /\ "ConnectionError" \in InstanceOf(outcome)
IsTimeout(outcome) == outcome \in Exceptions /\ "Timeout" \in InstanceOf(outcome)

\* C24: an attempt that ends in a connection failure or a 4xx response is the
\* last one of its call: no wait and no attempt follows it, and the call ends
\* in an AgentClientError.
C24_NoRetryOfConnectionFailureOr4xx ==
    \A k \in Attempts :
        (IsConnectionFailure(retry.outcomes[k]) \/ retry.outcomes[k] = "4xx") =>
            /\ k = Len(retry.outcomes)
            /\ Len(retry.slept) < k
            /\ retry.pc = "done"
            /\ retry.result.raised

\* C25: a call makes at most max_retries attempts; before each attempt but the
\* first it has waited 2^attempt seconds, counting the attempts before from 0,
\* and it waits after no last attempt; a timeout or 5xx before the last
\* allowed attempt is followed by another attempt; the call returns at the
\* first response that is a success and raises AgentClientError when
\* max_retries attempts have failed; and every call ends.
C25_Safety ==
    /\ Len(retry.outcomes) <= retry.max_retries
    /\ \A k \in Attempts : k < Len(retry.outcomes) => retry.outcomes[k] # "2xx"
    /\ \A k \in 1..Len(retry.slept) : retry.slept[k] = 2 ^ (k - 1)
    /\ retry.pc = "running" => Len(retry.slept) = Len(retry.outcomes)
    /\ retry.pc = "done" =>
           /\ Len(retry.slept) = IF retry.outcomes = <<>> THEN 0
                                 ELSE Len(retry.outcomes) - 1
           /\ ~retry.result.raised <=>
                  (retry.outcomes # <<>> /\ retry.outcomes[Len(retry.outcomes)] = "2xx")
           /\ (retry.outcomes # <<>>
               /\ (IsTimeout(retry.outcomes[Len(retry.outcomes)])
                   \/ retry.outcomes[Len(retry.outcomes)] = "5xx")) =>
                  Len(retry.outcomes) = retry.max_retries

C25_RetriesWithBackoffAndEnds == []C25_Safety /\ <>(retry.pc = "done")

\* a call of three attempts, the first two retried after 1 and 2 seconds, the
\* third failed as well
C25_Witness ==
    /\ retry.pc = "done"
    /\ retry.result.raised
    /\ Len(retry.outcomes) = retry.max_retries
    /\ retry.slept = <<1, 2>>
    /\ retry.outcomes[1] = "ReadTimeout"
    /\ retry.outcomes[2] = "5xx"

-----------------------------------------------------------------------------
(* Commands that run at the same time *)

Running(t) == tasks[t].pc \notin {"none", "scheduled", "done"}
RequestInProgress(t) == tasks[t].command = "terrarium" /\ Running(t)
TasksOn(ch) == {t \in TaskIds : tasks[t].pc # "none" /\ tasks[t].channel = ch}
UserTurnOf(t) == PlainTurn("user", tasks[t].args)
Stepped(t) == tasks'[t] # tasks[t]

\* C26: on one channel at most one request is in progress at any time, and
\* after the user turn of a request in progress the history of the channel
\* holds no user turn of another request.
C26_OneRequestPerChannel ==
    \A ch \in Channels :
        /\ Cardinality({t \in TasksOn(ch) : RequestInProgress(t)}) <= 1
        /\ \A t \in TasksOn(ch) :
               RequestInProgress(t) =>
                   \A i, j \in 1..Len(History(ch)) :
                       (i < j /\ History(ch)[i] = UserTurnOf(t)
                              /\ History(ch)[j].role = "user") =>
                           History(ch)[j] = UserTurnOf(t)

ChannelView(ch) == <<contexts[ch], dbHistory[ch], dbSummary[ch]>>

\* C27: a step of a command on one channel leaves the in-memory history and
\* summary and the stored rows and summary of every other channel as they were.
C27_ChannelsIndependent ==
    [][\A t \in TaskIds :
           Stepped(t) =>
               \A other \in Channels \ {tasks'[t].channel} :
                   ChannelView(other)' = ChannelView(other)]_vars

\* a request on the first channel has been answered while a request on the
\* second, whose history is loaded, is still in progress
C27_Witness ==
    \E t, u \in TaskIds :
        /\ tasks[t].channel = "#a" /\ tasks[t].state = "answered"
        /\ dbHistory["#a"] # <<>>
        /\ tasks[u].channel = "#b" /\ RequestInProgress(u)
        /\ contexts["#b"].loaded
        /\ Len(History("#b")) > Len(PlainExchangeRows)

\* the command has its context from get_context
HasContext(t) ==
    /\ Running(t)
    /\ tasks[t].command # "clear"
    /\ ~(tasks[t].pc \in {"load_history", "load_summary"}
         /\ tasks[t].after \in {"add_user", "summarize"})

StartsLoad(t) == tasks[t].pc # "load_history" /\ tasks'[t].pc = "load_history"
AssignsLoaded(t) == tasks[t].pc = "load_history" /\ tasks'[t].pc = "load_summary"

\* C28: no command holds a context whose history is not loaded; the history of
\* a channel is loaded only when its context is made; and the load overwrites
\* no turn that is in the in-memory history.
C28_LoadedOnceBeforeUse ==
    /\ [](\A t \in TaskIds : HasContext(t) => contexts[tasks[t].channel].loaded)
    /\ [][\A t \in TaskIds :
              /\ StartsLoad(t) => ~contexts[tasks'[t].channel].cached
              /\ AssignsLoaded(t) =>
                     \A i \in 1..Len(History(tasks[t].channel)) :
                         \E j \in 1..Len(History(tasks[t].channel)') :
                             History(tasks[t].channel)'[j] = History(tasks[t].channel)[i]]_vars

\* the rows are the persisted turns, in order
SameTurns(rows, turns) ==
    /\ Len(rows) = Len(turns)
    /\ \A i \in 1..Len(rows) : Persists(rows[i], turns[i])

\* C30: when no command is at work on a loaded channel, its in-memory history
\* and its stored rows hold the same turns in the same order, also after a
\* write to the database has failed.
C30_MemoryMatchesStorage ==
    \A ch \in Channels :
        (contexts[ch].loaded /\ \A t \in TasksOn(ch) : ~Running(t)) =>
            SameTurns(dbHistory[ch], History(ch))

-----------------------------------------------------------------------------
(* The assembled prompt *)

\* the request has its prompt and has not called the model yet
PromptAssembled == req.pc = "await_model" /\ req.iteration = 0

\* what get_messages_for_api returned: line 208 of commands.py has put one
\* more turn after it
AssembledPrompt == SubSeq(req.messages, 1, Len(req.messages) - 1)

HasSummary(ch) == contexts[ch].summary \notin {None, EmptyStr}
HasRecentEvents(ch) == ircLog[ch]
IsSummaryTurn(turn, ch) ==
    /\ turn.role = "system" /\ IsPlainTurn(turn)
    /\ turn.content = Wrapped(contexts[ch].summary, <<"conversation_summary">>)
IsActivityTurn(turn) ==
    /\ turn.role = "system" /\ IsPlainTurn(turn)
    /\ turn.content.wrap = <<"irc_logs">>

-----------------------------------------------------------------------------
(* The fallback parser *)

\* the value a written literal stands for: a quoted string without its quotes,
\* true and false as booleans, a number as an integer
Denotes(literal) ==
    IF Head(literal) = Quote /\ literal[Len(literal)] = Quote
    THEN PyStr(SubSeq(literal, 2, Len(literal) - 1))
    ELSE IF literal \in {<<"true">>, <<"false">>} THEN PyBool(literal)
    ELSE IF Len(literal) = 1 /\ literal[1] \in Numerals THEN PyInt(literal)
    ELSE PyStr(literal)

\* the arguments of a written call, by key
WrittenArgs(pairs) ==
    [key \in {<<pairs[i][1]>> : i \in 1..Len(pairs)} |->
        Denotes(pairs[CHOOSE i \in 1..Len(pairs) : pairs[i][1] = key[1]][2])]

ResponseHandled == fallback.pc \in {"execute_tools", "final"}

\* C31: a response without structured tool calls whose text holds a whitelisted
\* tool name followed by a parenthesized key=value list, inside a <tool_result>
\* block or not, gives exactly one tool call with that name and those arguments
\* and the loop goes on to execute it; a response with structured tool calls
\* keeps them and its text is not parsed; and when the name is not whitelisted
\* no call is synthesized and the text is the final answer.
C31_FallbackSynthesizesTheCall ==
    ResponseHandled =>
        /\ (fallback.structured = <<>> /\ fallback.written.name \in FALLBACK_TOOL_NAMES) =>
               /\ Len(fallback.tool_calls) = 1
               /\ fallback.tool_calls[1].name = fallback.written.name
               /\ fallback.tool_calls[1].arguments
                      = json_dumps(WrittenArgs(fallback.written.pairs))
               /\ fallback.pc = "execute_tools"
        /\ fallback.structured # <<>> =>
               /\ fallback.tool_calls = fallback.structured
               /\ fallback.pc = "execute_tools"
        /\ (fallback.structured = <<>> /\ fallback.written.name \notin FALLBACK_TOOL_NAMES) =>
               /\ fallback.tool_calls = <<>>
               /\ fallback.pc = "final"
               /\ fallback.final_response = fallback.content

\* the text of the example, as it stands, with whole delimiters and with none
ExampleCall ==
    <<"search_chat_logs", "(", "query", "=", Quote, "docker", Quote, ",", " ",
      "hours", "=", "24", ")">>
ExampleTexts ==
    {<<"tool_result>", " ">> \o ExampleCall \o <<" ", "</tool_result">>,
     <<"<tool_result>", " ">> \o ExampleCall \o <<" ", "</tool_result>">>,
     ExampleCall}

\* C32: for the text `tool_result> search_chat_logs(query="docker", hours=24)
\* </tool_result`, with or without proper delimiters, the parser gives the tool
\* search_chat_logs with query = the string docker, without its quotes, and
\* hours = the integer 24, not the string "24".
C32_ExampleParsed ==
    (ResponseHandled /\ fallback.structured = <<>> /\ fallback.content \in ExampleTexts) =>
        /\ Len(fallback.tool_calls) = 1
        /\ fallback.tool_calls[1].name = "search_chat_logs"
        /\ fallback.tool_calls[1].arguments.obj
               = (<<"query">> :> PyStr(<<"docker">>)) @@ (<<"hours">> :> PyInt(<<"24">>))
        /\ fallback.tool_calls[1].arguments.obj[<<"hours">>] # PyStr(<<"24">>)

C32_Witness ==
    /\ fallback.pc = "execute_tools"
    /\ fallback.structured = <<>>
    /\ fallback.content = <<"tool_result>", " ">> \o ExampleCall \o <<" ", "</tool_result">>
    /\ fallback.tool_calls[1].arguments.obj[<<"hours">>] = PyInt(<<"24">>)

-----------------------------------------------------------------------------
(* The search command and the search tool *)

\* C33: the search tool classifies a query into AND / OR / phrase mode, and
\* derives the query text given to the store, exactly as the search command
\* does: for every query both give the same mode and the same query.
C33_ToolClassifiesAsCommand ==
    (search.command # <<>> /\ search.tool # <<>>) => search.command = search.tool

-----------------------------------------------------------------------------
(* What a summarization request carries *)

\* a message that carries a text: as its content, wrapped or not, or as the
\* content of a line of its payload
Carries(message, text) ==
    \/ message.content = text
    \/ message.content.kind = text.kind /\ message.content.s = text.s
       /\ message.content.kind # "payload"
    \/ /\ message.content.kind = "payload"
       /\ \E i \in 1..Len(message.content.obj) : message.content.obj[i].content = text

SummarizedOverSummary == obs.summarize.called /\ Truthy(obs.summarize.found)

\* C34: when a summary already exists, the summarization request carries the
\* existing summary together with the turns being removed, so that what an
\* earlier compaction summarized is still there for the summary that replaces it.
C34_RequestCarriesExistingSummary ==
    SummarizedOverSummary =>
        /\ \E i \in 1..Len(obs.summarize.messages) :
               Carries(obs.summarize.messages[i], obs.summarize.found)
        /\ \A k \in 1..Len(obs.summarize.chosen) :
               \E i \in 1..Len(obs.summarize.messages) :
                   Carries(obs.summarize.messages[i], obs.summarize.chosen[k].content)

-----------------------------------------------------------------------------
(* The first model call of a request *)

\* the working message list is assembled and no model call has been made
FirstCallReady == req.pc = "await_model" /\ req.iteration = 0

IsCurrentUserTurn(turn) == turn = PlainTurn("user", req.user_content)

\* the turns of the channel's history that are older than the request
OlderTurns == SubSeq(History(req.channel), 1, TurnsBeforeRequest)

\* C35: the message list sent to the model on the first call of a request holds
\* the current user turn exactly once, as its last turn (turns of earlier
\* requests with the same text apart).
C35_UserTurnOnceAndLast ==
    FirstCallReady =>
        /\ IsCurrentUserTurn(req.messages[Len(req.messages)])
        /\ Count(req.messages, IsCurrentUserTurn) = Count(OlderTurns, IsCurrentUserTurn) + 1

-----------------------------------------------------------------------------
(* The tool calls a request leaves in history *)

\* turn i of the turns is a tool-call turn, and each of its calls has exactly
\* one tool-result turn after it
CallsAnswered(turns, i) ==
    \A c \in 1..Len(turns[i].tool_calls) :
        Cardinality({j \in (i + 1)..Len(turns) :
                        Answers(turns[j], turns[i].tool_calls[c])}) = 1

\* C36: when a request ends, however it ends (model answer, iteration ceiling,
\* or an error caught by the handler), every assistant tool-call turn it
\* recorded in history is followed by exactly one tool-result turn for each
\* tool call it asked for; no request leaves a tool call without its result.
C36_NoToolCallLeftUnanswered ==
    RequestJustEnded =>
        \A i \in 1..Len(RequestTurns) :
            IsToolCallTurn(RequestTurns[i]) => CallsAnswered(RequestTurns, i)

-----------------------------------------------------------------------------
(* Compaction beside other commands and with failing writes *)

Alone(t) == \A other \in TaskIds \ {t} : tasks[other].pc = "none"

\* the summary and the history, in memory and in storage, are those of `before`
NothingReplaced(cs, before) ==
    /\ cs.ctx.summary = before.ctx.summary
    /\ cs.summ = before.summ
    /\ cs.ctx.conversation_history = before.ctx.conversation_history
    /\ cs.rows = before.rows

\* the summary is a new one and the history is what `before` retains
AllReplaced(cs, before) ==
    /\ cs.ctx.summary # before.ctx.summary
    /\ cs.summ = cs.ctx.summary
    /\ cs.ctx.conversation_history
           = LastN(before.ctx.conversation_history, SUMMARY_RETAIN_TURNS)
    /\ cs.rows = LastN(before.rows, SUMMARY_RETAIN_TURNS)

\* C37: compaction is all-or-nothing: after maybe_summarize returns or raises,
\* either both the summary and the history have been replaced, in memory and
\* in storage, or neither has changed, also when one of its writes fails.
C37_CompactionAllOrNothing ==
    \A t \in TaskIds :
        (Alone(t) /\ tasks[t].compaction.state \in {"returned", "raised"}) =>
            \/ NothingReplaced(StateOf(ChannelOf(tasks[t])), tasks[t].compaction.before)
            \/ AllReplaced(StateOf(ChannelOf(tasks[t])), tasks[t].compaction.before)

\* the step in which maybe_summarize cuts the in-memory history (line 270)
CutsHistory(t) == tasks[t].pc = "saving_summary" /\ tasks'[t].pc = "cutting_history"

\* the turns a step removes from the front of a channel's history
RemovedTurns(ch) ==
    SubSeq(History(ch), 1, Len(History(ch)) - Len(contexts'[ch].conversation_history))

\* C38: every turn that compaction removes from a channel's history was among
\* the turns selected for summarization (all but the last 12 when the summary
\* was asked for), also when another request for the channel appends turns
\* while compaction waits.
C38_RemovesOnlySelectedTurns ==
    [][\A t \in TaskIds :
           CutsHistory(t) =>
               IsPrefix(RemovedTurns(ChannelOf(tasks[t])), tasks[t].compaction.chosen)]_vars

-----------------------------------------------------------------------------
(* What the conversation history holds *)

ConversationRoles == {"user", "assistant", "tool"}

\* the turns of a request's working list that the harness wrote itself
SystemTurns(messages) == SelectSeq(messages, LAMBDA turn : turn.role = "system")

\* C39: the conversation history of a channel, in memory and in durable
\* storage, only ever holds turns with role user, assistant or tool; the
\* persona, summary, recent-activity and budget-warning system turns are in the
\* working message list of a request only and are never recorded.
C39_OnlyConversationTurnsRecorded ==
    \A ch \in Channels :
        /\ \A i \in 1..Len(History(ch)) : History(ch)[i].role \in ConversationRoles
        /\ \A i \in 1..Len(dbHistory[ch]) : dbHistory[ch][i].role \in ConversationRoles
        /\ \A i \in 1..Len(HydrateHistory(dbHistory[ch])) :
               HydrateHistory(dbHistory[ch])[i].role \in ConversationRoles

\* a request whose working list holds the persona, the summary, the recent
\* activity and the warning, after it recorded a tool call and its result
C39_Witness ==
    /\ req.pc \in {"await_model", "done"}
    /\ HasSummary(req.channel)
    /\ HasRecentEvents(req.channel)
    /\ Len(SystemTurns(req.messages)) = 4
    /\ CountIn(req.messages, WarningTurn) = 1
    /\ Len(History(req.channel)) >= 2
    /\ History(req.channel)[Len(History(req.channel))].role = "tool"
    /\ dbHistory[req.channel][Len(dbHistory[req.channel])].role = "tool"

====
